---- MODULE Spec2Model ----
(***************************************************************************)
(* Model of the onmetal cloud provider's load-balancer reconciliation      *)
(* (EnsureLoadBalancer, UpdateLoadBalancer, EnsureLoadBalancerDeleted) and *)
(* of the object store it talks to.  Each action is one request to the     *)
(* store together with the code that follows it up to the next request.    *)
(*                                                                         *)
(* Strings are sequences of characters; a run of characters that the code  *)
(* never splits is written as one element ("m1"), the characters the code  *)
(* looks for ("/", "-", ":", "Z") are elements of their own.               *)
(***************************************************************************)
EXTENDS Integers, Sequences, FiniteSets, TLC

\* ------------------------------------------------------------------ bounds
\* longest node list handed to EnsureLoadBalancer / UpdateLoadBalancer
MaxNodes == 2
\* calls issued altogether
MaxCalls == 2
\* store requests that are answered with an error other than NotFound
MaxFaults == 1
\* name derivations that are recorded
MaxNames == 2

\* --------------------------------------------------------------- constants
\* waitLoadbalancerActiveSteps: wait.Backoff.Steps of both waits
waitLoadbalancerActiveSteps == 19

\* a nil NetworkInterfaceRef
NoRef == <<>>
\* an absent label or annotation value
NoLabel == <<>>

LoadBalancerTypePublic == "Public"
LoadBalancerTypeInternal == "Internal"
\* the zero value of networkingv1alpha1.LoadBalancerType
NoType == ""

\* o.cloudConfig.NetworkName
NetworkName == <<"net">>
\* UID of the Network object of that name
NetworkUID == 7
\* the values o.cloudConfig.PrefixName can have: unset, or a prefix name
PrefixNames == {<<>>, <<"prefix">>}

\* ------------------------------------------------ the objects that are read
\* Node objects handed in by the caller: name and spec.providerID
Nodes ==
  { [name |-> <<"n1">>, providerID |-> <<"onmetal", ":", "/", "/", "ns", "/", "m1">>],
    [name |-> <<"n2">>, providerID |-> <<"onmetal", ":", "/", "/", "ns", "/", "m2">>],
    [name |-> <<"n3">>, providerID |-> <<"onmetal", ":", "/", "/", "ns", "/", "m3">>],
    [name |-> <<"n4">>, providerID |-> <<"onmetal", ":", "/", "/", "ns", "/", "m4">>] }

\* Node objects whose spec.providerID has no "/", nothing after its last "/", or
\* is empty; the first carries the name of a stored Machine
NodesWithoutMachineName ==
  { [name |-> <<"n5">>, providerID |-> <<"m2">>],
    [name |-> <<"n6">>, providerID |-> <<"onmetal", ":", "/", "/", "ns", "/">>],
    [name |-> <<"n7">>, providerID |-> <<>>] }

\* Machine objects in the store: spec.networkInterfaces (name, networkInterfaceRef).
\* There is no machine m3.  No node of Nodes is backed by m5.
Machines ==
  { [name |-> <<"m1">>,
     nics |-> << [name |-> <<"primary">>, ref |-> <<"nicA">>],
                 [name |-> <<"secondary">>, ref |-> NoRef] >>],
    [name |-> <<"m2">>,
     nics |-> << [name |-> <<"primary">>, ref |-> NoRef] >>],
    [name |-> <<"m4">>,
     nics |-> << [name |-> <<"primary">>, ref |-> <<"ghost">>] >>],
    [name |-> <<"m5">>,
     nics |-> << [name |-> <<"a">>, ref |-> NoRef], [name |-> <<"b">>, ref |-> NoRef] >>] }

\* NetworkInterface objects in the store: name, UID, spec.networkRef.name.
\* There is no interface "ghost".
NetworkInterfaces ==
  { [name |-> <<"nicA">>, uid |-> 2, network |-> <<"net">>],
    [name |-> <<"m1", "-", "secondary">>, uid |-> 3, network |-> <<"foo">>],
    [name |-> <<"m2", "-", "primary">>, uid |-> 1, network |-> <<"net">>],
    [name |-> <<"m5", "-", "a">>, uid |-> 4, network |-> <<"net">>],
    [name |-> <<"m5", "-", "b">>, uid |-> 5, network |-> <<"foo">>] }

\* commonv1alpha1.IP values a LoadBalancer status can carry
IPs == {1, 2}
\* the status.ips lists the provisioning side writes
IPLists == {<<>>, <<2, 1>>}

\* wall-clock instants time.Now() can return
Times == {1, 2}

\* ----------------------------------------------------------- pure functions
\* ip.String()
IPString(ip) == IF ip = 1 THEN "10.0.0.1" ELSE "100.0.0.10"

\* a ToIngress that keeps the first IP only
ToIngressFirstOnly(ips) == IF ips = <<>> THEN <<>> ELSE <<[IP |-> IPString(ips[1])]>>

\* for _, ip := range status.ips { append(ingress, LoadBalancerIngress{IP: ip.String()}) }
ToIngress(ips) == [i \in 1..Len(ips) |-> [IP |-> IPString(ips[i])]]

\* servicehelper.LoadBalancerStatusEqual: same length and equal entry by entry
LoadBalancerStatusEqual(l, r) ==
  /\ Len(l) = Len(r)
  /\ \A i \in 1..Len(l) : l[i].IP = r[i].IP

\* strings.LastIndex(s, c): the last position of c in s, 0 when there is none
\* (Go's -1: positions here start at 1)
LastIndex(s, c) ==
  IF \E i \in 1..Len(s) : s[i] = c
  THEN CHOOSE i \in 1..Len(s) : s[i] = c /\ \A j \in (i+1)..Len(s) : s[j] # c
  ELSE 0

\* a reading of the provider ID that takes an ID without "/" for the name
WholeIDWithoutSlash(providerID) ==
  LET lastSlash == LastIndex(providerID, "/")
  IN  IF lastSlash = 0 THEN providerID
      ELSE SubSeq(providerID, lastSlash + 1, Len(providerID))

extractMachineNameFromProviderID(providerID) ==
  LET lastSlash == LastIndex(providerID, "/")
  IN  IF lastSlash = 0 \/ lastSlash + 1 > Len(providerID)
      THEN <<>>
      ELSE SubSeq(providerID, lastSlash + 1, Len(providerID))

\* fmt.Sprintf("%s-%s", a, b)
SprintfDash(a, b) == a \o <<"-">> \o b

\* ------------------------------------------------------------------ naming
\* Names are kept character by character over the characters "a", "b" and "-".
\* the cluster names, Service names and Service UIDs calls are made with
ClusterNames == {<<"a">>, <<"a", "-", "b">>}
ServiceNames == {<<"b">>, <<"b", "-", "a">>}
ServiceUIDs == {<<>>, <<"a">>, <<"a", "-", "a">>, <<"a", "-", "b">>}
Services == [name : ServiceNames, uid : ServiceUIDs]

\* a Split that cuts nowhere
SplitNowhere(str, sep) == <<str>>

\* strings.Split(str, sep) for a one-character sep: the pieces between the
\* separators, one piece more than there are separators
RECURSIVE Split(_, _)
Split(str, sep) ==
  IF \A i \in 1..Len(str) : str[i] # sep
  THEN <<str>>
  ELSE LET first == CHOOSE i \in 1..Len(str) :
                      str[i] = sep /\ \A j \in 1..(i - 1) : str[j] # sep
       IN  <<SubSeq(str, 1, first - 1)>> \o Split(SubSeq(str, first + 1, Len(str)), sep)

\* fmt.Sprintf("%s-%s-%s", a, b, c)
SprintfDashDash(a, b, c) == a \o <<"-">> \o b \o <<"-">> \o c

getLoadBalancerNameForService(clusterName, service) ==
  LET nameSuffix == Split(service.uid, "-")[1]
  IN  SprintfDashDash(clusterName, service.name, nameSuffix)

\* (o *onmetalLoadBalancer) GetLoadBalancerName
GetLoadBalancerName(clusterName, service) ==
  getLoadBalancerNameForService(clusterName, service)

\* ------------------------------------------------- destination resolution
\* onmetalClient.Get of a Machine: the object, or the untouched zero Machine
\* when the store answers NotFound (client.IgnoreNotFound drops that error)
\* The empty name is a name like any other here: nothing is stored under it.
GetMachine(machineName) ==
  IF \E m \in Machines : m.name = machineName
  THEN CHOOSE m \in Machines : m.name = machineName
  ELSE [name |-> <<>>, nics |-> <<>>]

\* the name under which a declared attachment's NetworkInterface is fetched
NetworkInterfaceName(machine, machineNIC) ==
  IF machineNIC.ref # NoRef
  THEN machineNIC.ref
  ELSE SprintfDash(machine.name, machineNIC.name)

\* onmetalClient.Get of a NetworkInterface: the objects of that name (one or none)
GetNetworkInterface(nicName) == {n \in NetworkInterfaces : n.name = nicName}

\* a Get of a NetworkInterface whose error is never looked at
NetworkInterfaceGetNeverFails(fetched) == FALSE

\* `err != nil` after that Get: nothing was fetched
NetworkInterfaceGetFailed(fetched) == fetched = {}

\* a resolver that keeps an interface whatever its network
OnAnyNetwork(nic, networkName) == TRUE

\* networkInterface.Spec.NetworkRef.Name == networkName
OnNetwork(nic, networkName) == nic.network = networkName

\* the inner loop of getNetworkInterfacesForNodes over machine.Spec.NetworkInterfaces,
\* from attachment i on; acc is the list appended to so far
RECURSIVE MachineInterfaces(_, _, _, _)
MachineInterfaces(machine, i, networkName, acc) ==
  IF i > Len(machine.nics)
  THEN [err |-> FALSE, nis |-> acc]
  ELSE LET nicName == NetworkInterfaceName(machine, machine.nics[i])
           fetched == GetNetworkInterface(nicName)
           kept == {n \in fetched : OnNetwork(n, networkName)}
       IN  IF NetworkInterfaceGetFailed(fetched)
           THEN [err |-> TRUE, nis |-> <<>>]
           ELSE MachineInterfaces(machine, i + 1, networkName,
                  IF kept # {}
                  THEN LET nic == CHOOSE n \in kept : TRUE
                       IN  Append(acc, [name |-> nic.name, uid |-> nic.uid])
                  ELSE acc)

\* getNetworkInterfacesForNodes, from node i on: err is set when a declared
\* interface cannot be fetched
RECURSIVE NodeInterfaces(_, _, _, _)
NodeInterfaces(nodes, i, networkName, acc) ==
  IF i > Len(nodes)
  THEN [err |-> FALSE, nis |-> acc]
  ELSE LET machineName == extractMachineNameFromProviderID(nodes[i].providerID)
           machine == GetMachine(machineName)
           r == MachineInterfaces(machine, 1, networkName, acc)
       IN  IF r.err THEN r ELSE NodeInterfaces(nodes, i + 1, networkName, r.nis)

getNetworkInterfacesForNodes(nodes, networkName) ==
  NodeInterfaces(nodes, 1, networkName, <<>>)

\* insertion of x into a list sorted by uid
RECURSIVE InsertByUID(_, _)
InsertByUID(x, s) ==
  IF s = <<>> THEN <<x>>
  ELSE IF x.uid < Head(s).uid THEN <<x>> \o s
  ELSE <<Head(s)>> \o InsertByUID(x, Tail(s))

\* sort.Slice(networkInterfaces, func(i, j) { return nis[i].UID < nis[j].UID })
RECURSIVE SortByUID(_)
SortByUID(s) == IF s = <<>> THEN <<>> ELSE InsertByUID(Head(s), SortByUID(Tail(s)))

\* the list applyLoadBalancerRoutingForLoadBalancer puts into Destinations
RoutingDestinations(nis) == SortByUID(nis)

\* the list UpdateLoadBalancer puts into loadBalancerRouting.Destinations
UpdateDestinations(nis) == nis

\* ------------------------------------------------------------ timestamps
\* time.Now().Format(time.RFC3339), for a clock in UTC
FormatRFC3339(t) ==
  <<"2023-05-01T10", ":", "00", ":", IF t = 1 THEN "01" ELSE "02", "Z">>

\* strings.ReplaceAll(s, old, new) for one-character old and new
ReplaceAll(s, old, new) == [i \in 1..Len(s) |-> IF s[i] = old THEN new ELSE s[i]]

\* strings.TrimSuffix(s, suffix) for a one-character suffix
TrimSuffix(s, suffix) ==
  IF Len(s) > 0 /\ s[Len(s)] = suffix THEN SubSeq(s, 1, Len(s) - 1) ELSE s

\* the value put into the "updated" label
FormattedTime(t) == TrimSuffix(ReplaceAll(FormatRFC3339(t), ":", "-"), "Z")

\* ------------------------------------------------------------------ state
Procs == {1, 2}

\* the cluster name and Service of a load balancer, and those of another one
ThisIdentity ==
  [clusterName |-> <<"a">>, service |-> [name |-> <<"b">>, uid |-> <<"a", "-", "b">>]]
OtherIdentity ==
  [clusterName |-> <<"a", "-", "b">>, service |-> [name |-> <<"b">>, uid |-> <<"a">>]]
Identities == {ThisIdentity, OtherIdentity}

\* the names under which the store holds their objects
ThisName == GetLoadBalancerName(ThisIdentity.clusterName, ThisIdentity.service)
LoadBalancerNames == {GetLoadBalancerName(i.clusterName, i.service) : i \in Identities}

VARIABLES
  loadBalancers,         \* per name: the LoadBalancer stored under it (NoLB: none)
  loadBalancerRoutings,  \* per name: the LoadBalancerRouting stored under it
                         \* (NoRouting: none)
  ident,       \* per caller: the cluster name and Service its calls are made for
  compute,     \* what the store holds of Machines and NetworkInterfaces beyond
               \* their specs: the labels of both and status.state of Machines
  prefixName,  \* o.cloudConfig.PrefixName
  nextUid,     \* the UID the store gives the next LoadBalancer it creates
  faults,      \* store requests answered with an error so far
  callers,     \* the callers that issue calls (the per-caller variables are theirs)
  ncalls,      \* calls started so far
  pc,          \* per caller: the request its call issues next
  call,        \* per caller: the arguments of its call
  loc,         \* per caller: the local variables of its call
  res,         \* per caller: what its call returned
  obs,         \* per caller: what its call has seen and done (history)
  names        \* the LoadBalancer names derived so far: by which operation, for
               \* which cluster name and Service, and the name

vars ==
  <<loadBalancers, loadBalancerRoutings, ident, compute, prefixName, nextUid, faults, callers,
    ncalls, pc, call, loc, res, obs, names>>

\* the objects of ThisIdentity
lb == loadBalancers[ThisName]
routing == loadBalancerRoutings[ThisName]

\* all node lists of at most MaxNodes nodes
RECURSIVE SeqsUpTo(_, _)
SeqsUpTo(S, n) ==
  IF n = 0 THEN {<<>>}
  ELSE LET shorter == SeqsUpTo(S, n - 1)
       IN  shorter \cup {Append(s, x) : s \in {t \in shorter : Len(t) = n - 1}, x \in S}

NodeLists == SeqsUpTo(Nodes, MaxNodes)

\* service.Status.LoadBalancer.Ingress as the caller's Service object reports it
ServiceStatuses == {ToIngress(ips) : ips \in IPLists}

\* no LoadBalancer stored; a stored one has a UID, spec.type, spec.networkRef.name,
\* the parentRef names of spec.ips, status.ips, and is marked when its deletion
\* has been accepted and it is not gone yet
NoLB ==
  [exists |-> FALSE, uid |-> 0, type |-> NoType, network |-> <<>>, ipsrc |-> <<>>,
   ips |-> <<>>, deleting |-> FALSE]

\* no LoadBalancerRouting stored; a stored one has networkRef, destinations, the
\* UID and the name of the LoadBalancer its owner reference names, and the
\* "updated" label
NoRouting ==
  [exists |-> FALSE, network |-> [name |-> <<>>, uid |-> 0], dest |-> <<>>,
   owner |-> 0, ownerName |-> <<>>, updated |-> NoLabel]

\* a store that holds nothing but the given object of ThisIdentity
StoreOf(object, none) ==
  [n \in LoadBalancerNames |->
     IF n = ThisName THEN object ELSE none]

\* a nil *LoadBalancerStatus
NilStatus == [nil |-> TRUE, ingress |-> <<>>]
Status(ingress) == [nil |-> FALSE, ingress |-> ingress]

\* the arguments of a call; annotation: the value of the Service's
\* InternalLoadBalancerAnnotation (NoLabel: the Service has none); given: the
\* node list and the Service's reported status are already in the record
\* (otherwise they enter it with the first step that reads them); ctxDone: the
\* call's context has been cancelled or its deadline has passed
NoCall ==
  [op |-> "none", annotation |-> NoLabel, nodes |-> <<>>, svcStatus |-> <<>>, given |-> FALSE,
   ctxDone |-> FALSE]

\* local variables at the start of a call: existingLoadBalancerType, the
\* loadBalancer object (UID and status as last fetched or applied), the polls the
\* running wait has made, loadBalancerStatus.Ingress, the fetched routing object,
\* and in InstanceMetadata the position in machine.Spec.NetworkInterfaces
NoLoc ==
  [existingType |-> NoType, lbUid |-> 0, polls |-> 0, ingress |-> <<>>, lbr |-> NoRouting,
   nic |-> 0]

\* a nil *cloudprovider.InstanceMetadata
NilMetadata == [nil |-> TRUE, providerID |-> <<>>]
Metadata(providerID) == [nil |-> FALSE, providerID |-> providerID]

\* what a call returned: state "ok" (nil error) or "err", the kind of the
\* error, the status, the bool (GetLoadBalancer's exists, and what InstanceExists
\* and InstanceShutdown return), and the instance metadata
NoRes ==
  [state |-> "none", err |-> "", status |-> NilStatus, exists |-> FALSE, meta |-> NilMetadata]

\* history of a call: whether it issued a store request, whether it wrote the
\* routing object, whether it entered the activation wait, what the last
\* poll of the activation wait read, and the operation and outcome of the call
\* the same caller made before this one
NoObs ==
  [usedStore |-> FALSE, wrote |-> FALSE, waited |-> FALSE,
   lastPoll |-> [kind |-> "none", ips |-> <<>>],
   after |-> [op |-> "none", state |-> "none"]]

\* the names of the stored Machines and NetworkInterfaces
MachineNames == {m.name : m \in Machines}
NetworkInterfaceNames == {n.name : n \in NetworkInterfaces}

\* the values of Machine status.state; computev1alpha1.MachineStateShutdown is
\* the second
MachineStates == {"Running", "Shutdown", "Terminating"}

\* the labels of an object: the value under LabeKeylClusterName and the value
\* under another key (NoLabel: no such label)
LabelsOf(cluster, other) == [cluster |-> cluster, other |-> other]

\* a compute side on which every Machine and NetworkInterface has the given
\* cluster-name label and every Machine the given state; m2, m5 and their
\* interfaces have another label besides
InitialCompute(cluster, state) ==
  [machineLabels |->
     [m \in MachineNames |->
        LabelsOf(cluster, IF m \in {<<"m2">>, <<"m5">>} THEN <<"x">> ELSE NoLabel)],
   nicLabels |->
     [n \in NetworkInterfaceNames |->
        LabelsOf(cluster, IF n[1] \in {"m2", "m5"} THEN <<"y">> ELSE NoLabel)],
   machineState |-> [m \in MachineNames |-> state]]

Init ==
  /\ loadBalancers = StoreOf(NoLB, NoLB)
  /\ loadBalancerRoutings = StoreOf(NoRouting, NoRouting)
  /\ prefixName \in PrefixNames
  /\ nextUid = 1
  /\ faults = 0
  /\ callers = {1}
  /\ ncalls = 0
  /\ pc = [p \in {1} |-> "idle"]
  /\ call = [p \in {1} |-> NoCall]
  /\ loc = [p \in {1} |-> NoLoc]
  /\ res = [p \in {1} |-> NoRes]
  /\ obs = [p \in {1} |-> NoObs]
  /\ names = {}
  /\ ident = [p \in callers |-> ThisIdentity]
  /\ compute = InitialCompute(NoLabel, "Running")

\* ---------------------------------------------------------------- helpers
\* one name for the requests of every call
KeyOfThisName(p) == ThisName

\* loadBalancerName, the name under which every request of a call addresses the
\* store: EnsureLoadBalancer derives it with getLoadBalancerNameForService and
\* puts it into the objects it builds, the other operations (and the deletion
\* inside EnsureLoadBalancer) with GetLoadBalancerName
Key(p) ==
  IF call[p].op = "ensure" /\ pc[p] \notin {"D_delete", "D_wait"}
  THEN getLoadBalancerNameForService(ident[p].clusterName, ident[p].service)
  ELSE GetLoadBalancerName(ident[p].clusterName, ident[p].service)

\* the objects stored under that name
LB(p) == loadBalancers[Key(p)]
LBR(p) == loadBalancerRoutings[Key(p)]

\* whether the request of this step is answered with an error that is not NotFound
MayFault(f) == f \in BOOLEAN /\ (f => faults < MaxFaults)
CountFault(f) == faults' = IF f THEN faults + 1 ELSE faults

\* the call returns: state "ok" or "err", the error kind, the returned status;
\* its local variables are gone
Return(p, state, err, status) ==
  /\ pc' = [pc EXCEPT ![p] = "done"]
  /\ res' = [res EXCEPT ![p] =
               [NoRes EXCEPT !.state = state, !.err = err, !.status = status]]
  /\ loc' = [loc EXCEPT ![p] = NoLoc]

Used(p) == [obs[p] EXCEPT !.usedStore = TRUE]

CanStart(p) ==
  /\ p \in callers
  /\ pc[p] \in {"idle", "done"}
  /\ ncalls < MaxCalls

Begin(p, c, first, r) ==
  /\ ncalls' = ncalls + 1
  /\ call' = [call EXCEPT ![p] = c]
  /\ loc' = [loc EXCEPT ![p] = NoLoc]
  /\ res' = [res EXCEPT ![p] = r]
  /\ obs' = [obs EXCEPT ![p] =
               [NoObs EXCEPT !.after = [op |-> call[p].op, state |-> res[p].state]]]
  /\ pc' = [pc EXCEPT ![p] = first]

\* the values service.Annotations[InternalLoadBalancerAnnotation] is called with:
\* no such annotation, "true", and another value
Annotations == {NoLabel, <<"true">>, <<"false">>}

\* `value, ok := service.Annotations[...]; ok && value == "true"`
AnnotationIsTrue(value) == value # NoLabel /\ value = <<"true">>

\* desiredLoadBalancerType
DesiredType(c) ==
  IF AnnotationIsTrue(c.annotation) THEN LoadBalancerTypeInternal ELSE LoadBalancerTypePublic

\* ------------------------------------------------------ EnsureLoadBalancer
\* The call's arguments are fixed for the whole call.  An argument enters the
\* state with the first step that reads it: the annotation here, the node list
\* and the Service's reported status with the routing step, which is the first
\* to read the nodes and the last before the wait that reads the status.
StartEnsure(p) ==
  /\ CanStart(p)
  /\ \E annotation \in Annotations :
       Begin(p, [NoCall EXCEPT !.op = "ensure", !.annotation = annotation], "E_get", NoRes)
  /\ UNCHANGED <<loadBalancers, loadBalancerRoutings, prefixName, nextUid, faults, callers,
                 names, ident, compute>>

\* the Get of the existing LoadBalancer: only a successful Get records the type
\* and, when it differs from the desired one, starts the deletion
EnsureGetExisting(p) ==
  /\ pc[p] = "E_get"
  /\ \E f \in BOOLEAN :
       /\ MayFault(f)
       /\ CountFault(f)
       /\ IF ~f /\ LB(p).exists
          THEN /\ loc' = [loc EXCEPT ![p].existingType = LB(p).type]
               /\ pc' = [pc EXCEPT ![p] =
                           IF LB(p).type # DesiredType(call[p]) THEN "D_delete" ELSE "E_apply"]
          ELSE /\ loc' = loc
               /\ pc' = [pc EXCEPT ![p] = "E_apply"]
  /\ obs' = [obs EXCEPT ![p] = Used(p)]
  /\ UNCHANGED <<loadBalancers, loadBalancerRoutings, prefixName, nextUid, callers, ncalls,
                 call, res, names, ident, compute>>

\* the object a forced server-side apply of the built LoadBalancer leaves in the
\* store: a new object when there is none, otherwise the same object with the
\* applied spec
IpSource(type, prefix) == IF type = LoadBalancerTypeInternal THEN <<prefix>> ELSE <<>>

\* an apply that replaces the stored object by a new one
ApplyCreates(cur, type, prefix, uid) ==
  [exists |-> TRUE, uid |-> uid, type |-> type, network |-> NetworkName,
   ipsrc |-> IpSource(type, prefix), ips |-> <<>>, deleting |-> FALSE]

ApplyLoadBalancer(cur, type, prefix, uid) ==
  IF cur.exists
  THEN [cur EXCEPT !.type = type, !.network = NetworkName, !.ipsrc = IpSource(type, prefix)]
  ELSE [exists |-> TRUE, uid |-> uid, type |-> type, network |-> NetworkName,
        ipsrc |-> IpSource(type, prefix), ips |-> <<>>, deleting |-> FALSE]

\* the prefix check and the apply of the LoadBalancer
EnsureApply(p) ==
  /\ pc[p] = "E_apply"
  /\ IF DesiredType(call[p]) = LoadBalancerTypeInternal /\ prefixName = <<>>
     THEN /\ Return(p, "err", "Config", NilStatus)
          /\ UNCHANGED <<loadBalancers, nextUid, faults, obs>>
     ELSE \E f \in BOOLEAN :
            /\ MayFault(f)
            /\ CountFault(f)
            /\ obs' = [obs EXCEPT ![p] = Used(p)]
            /\ IF f
               THEN /\ Return(p, "err", "Store", NilStatus)
                    /\ UNCHANGED <<loadBalancers, nextUid>>
               ELSE /\ loadBalancers' =
                         [loadBalancers EXCEPT ![Key(p)] =
                            ApplyLoadBalancer(LB(p), DesiredType(call[p]), prefixName, nextUid)]
                    /\ nextUid' = IF LB(p).exists THEN nextUid ELSE nextUid + 1
                    /\ loc' = [loc EXCEPT ![p].lbUid = loadBalancers'[Key(p)].uid, ![p].polls = 0]
                    /\ pc' = [pc EXCEPT ![p] = "E_routing"]
                    /\ res' = res
  /\ UNCHANGED <<loadBalancerRoutings, prefixName, callers, ncalls, call, names, ident, compute>>

\* an apply of the routing object that stores nothing
ApplyRoutingDropped(cur, dest, ownerUid, ownerName) == cur

\* the object a forced server-side apply of the built LoadBalancerRouting leaves
\* in the store: networkRef, destinations and the owner reference are the
\* applied ones, labels are not part of the applied object and stay
ApplyRouting(cur, dest, ownerUid, ownerName) ==
  [exists |-> TRUE, network |-> [name |-> NetworkName, uid |-> NetworkUID],
   dest |-> dest, owner |-> ownerUid, ownerName |-> ownerName, updated |-> cur.updated]

\* applyLoadBalancerRoutingForLoadBalancer: resolve, sort, fetch the network,
\* apply.  The objects read here do not change, so the reads and the write are
\* one step; an error of any of the requests ends the call before the write.
EnsureApplyRouting(p) ==
  /\ pc[p] = "E_routing"
  /\ \E nodes \in NodeLists, st \in ServiceStatuses :
      LET r == getNetworkInterfacesForNodes(nodes, NetworkName)
      IN \E f \in BOOLEAN :
           /\ call[p].given => (nodes = call[p].nodes /\ st = call[p].svcStatus)
           /\ call' = [call EXCEPT ![p].nodes = nodes, ![p].svcStatus = st]
           /\ MayFault(f)
           /\ CountFault(f)
           /\ IF f \/ r.err
              THEN /\ Return(p, "err", IF r.err /\ ~f THEN "Resolve" ELSE "Store", NilStatus)
                   /\ obs' = [obs EXCEPT ![p] = Used(p)]
                   /\ loadBalancerRoutings' = loadBalancerRoutings
              ELSE /\ loadBalancerRoutings' =
                        [loadBalancerRoutings EXCEPT ![Key(p)] =
                           ApplyRouting(LBR(p), RoutingDestinations(r.nis), loc[p].lbUid,
                                        Key(p))]
                   /\ obs' = [obs EXCEPT ![p] = [Used(p) EXCEPT !.wrote = TRUE]]
                   /\ loc' = [loc EXCEPT ![p].polls = 0]
                   /\ pc' = [pc EXCEPT ![p] = "E_wait"]
                   /\ res' = res
  /\ UNCHANGED <<loadBalancers, prefixName, nextUid, callers, ncalls, names, ident, compute>>

\* ------------------------------------------------------------- the waits
\* wait.ExponentialBackoffWithContext with Steps = waitLoadbalancerActiveSteps:
\* the condition is run while steps remain; polls counts the runs made before
\* this one, and the run that uses the last step ends the loop with ErrWaitTimeout
BackoffExhausted(polls) == polls + 1 >= waitLoadbalancerActiveSteps

\* an Interrupted that knows ErrWaitTimeout only
InterruptedByTimeoutOnly(err) == err = "ErrWaitTimeout"

\* wait.Interrupted(err): true of ErrWaitTimeout and of the context's errors,
\* false of an error the condition returned
Interrupted(err) == err \in {"ErrWaitTimeout", "ContextDone"}

\* what a wait makes of the error its backoff loop ended with
\* (`if err := wait.ExponentialBackoffWithContext(...); wait.Interrupted(err)`):
\* an interrupted wait is a timeout, any other end lets the code go on as after
\* a condition that came true
WaitOutcome(err) == IF Interrupted(err) THEN "timeout" ELSE "goon"

\* what a round of a backoff loop can meet: the loop looks at the context before
\* it runs the condition and while it sleeps, and ends with the context's error
\* once the context is done; otherwise the condition's Get is answered with the
\* object or NotFound ("answer") or with another error ("fault")
PollOutcomes(p) == IF call[p].ctxDone THEN {"ctx"} ELSE {"fault", "answer"}

\* the caller cancels the context of a call that is in one of the waits, or the
\* context's deadline passes there
CancelContext(p) ==
  /\ pc[p] \in {"E_wait", "D_wait"}
  /\ ~call[p].ctxDone
  /\ call' = [call EXCEPT ![p].ctxDone = TRUE]
  /\ UNCHANGED <<loadBalancers, loadBalancerRoutings, prefixName, nextUid, faults, callers,
                 ncalls, pc, loc, res, obs, names, ident, compute>>

\* a condition that looks at status.ips only
ActiveWithoutGuard(fetched, existingType, svcStatus) == Len(fetched.ips) # 0

\* the condition of waitLoadBalancerActive on a fetched LoadBalancer
ActiveCondition(fetched, existingType, svcStatus) ==
  /\ Len(fetched.ips) # 0
  /\ ~(/\ fetched.type # existingType
       /\ LoadBalancerStatusEqual(svcStatus, ToIngress(fetched.ips)))

\* one round of waitLoadBalancerActive's backoff loop
EnsureWaitPoll(p) ==
  /\ pc[p] = "E_wait"
  /\ \E o \in PollOutcomes(p) :
       /\ o = "fault" => faults < MaxFaults
       /\ CountFault(o = "fault")
       /\ LET seen == [obs[p] EXCEPT !.waited = TRUE]
              polled == [seen EXCEPT !.usedStore = TRUE]
          IN
          CASE o = "ctx" ->
                 /\ obs' = [obs EXCEPT ![p] = seen]
                 /\ IF WaitOutcome("ContextDone") = "timeout"
                    THEN Return(p, "err", "Timeout", NilStatus)
                    ELSE /\ pc' = [pc EXCEPT ![p] = "T_get"]
                         /\ res' = res
                         /\ loc' = [loc EXCEPT ![p].polls = 0]
            [] o = "fault" \/ (o = "answer" /\ ~LB(p).exists) ->
                 \* the condition returns the Get's error
                 /\ obs' = [obs EXCEPT ![p] =
                              [polled EXCEPT !.lastPoll = [kind |-> "err", ips |-> <<>>]]]
                 /\ IF WaitOutcome("GetError") = "timeout"
                    THEN Return(p, "err", "Timeout", NilStatus)
                    ELSE /\ pc' = [pc EXCEPT ![p] = "T_get"]
                         /\ res' = res
                         /\ loc' = [loc EXCEPT ![p].polls = 0]
            [] o = "answer" /\ LB(p).exists ->
                 /\ obs' = [obs EXCEPT ![p] =
                              [polled EXCEPT !.lastPoll = [kind |-> "read", ips |-> LB(p).ips]]]
                 /\ LET ingress == IF Len(LB(p).ips) = 0 THEN loc[p].ingress
                                   ELSE ToIngress(LB(p).ips)
                    IN  IF ActiveCondition(LB(p), loc[p].existingType, call[p].svcStatus)
                        THEN /\ loc' = [loc EXCEPT ![p].ingress = ingress, ![p].polls = 0]
                             /\ pc' = [pc EXCEPT ![p] = "T_get"]
                             /\ res' = res
                        ELSE IF BackoffExhausted(loc[p].polls)
                        THEN IF WaitOutcome("ErrWaitTimeout") = "timeout"
                             THEN Return(p, "err", "Timeout", NilStatus)
                             ELSE /\ pc' = [pc EXCEPT ![p] = "T_get"]
                                  /\ res' = res
                                  /\ loc' = [loc EXCEPT ![p].ingress = ingress, ![p].polls = 0]
                        ELSE /\ loc' = [loc EXCEPT ![p].ingress = ingress,
                                                   ![p].polls = @ + 1]
                             /\ pc' = pc
                             /\ res' = res
  /\ UNCHANGED <<loadBalancers, loadBalancerRoutings, prefixName, nextUid, callers, ncalls,
                 call, names, ident, compute>>

\* the Get of the routing object after the wait
TouchGet(p) ==
  /\ pc[p] = "T_get"
  /\ \E f \in BOOLEAN :
       /\ MayFault(f)
       /\ CountFault(f)
       /\ IF f \/ ~LBR(p).exists
          THEN Return(p, "err", IF f THEN "Store" ELSE "NotFound", NilStatus)
          ELSE /\ loc' = [loc EXCEPT ![p].lbr = LBR(p)]
               /\ pc' = [pc EXCEPT ![p] = "T_update"]
               /\ res' = res
  /\ obs' = [obs EXCEPT ![p] = Used(p)]
  /\ UNCHANGED <<loadBalancers, loadBalancerRoutings, prefixName, nextUid, callers, ncalls,
                 call, names, ident, compute>>

\* lbr.Labels["updated"] = formattedTime
Touch(lbr, t) == [lbr EXCEPT !.updated = FormattedTime(t)]

\* the Update of the routing object: the store takes the fetched object with the
\* new label unless the stored one is gone or has changed since the Get
TouchUpdate(p) ==
  /\ pc[p] = "T_update"
  /\ \E f \in BOOLEAN, t \in Times :
       /\ MayFault(f)
       /\ CountFault(f)
       /\ IF f \/ LBR(p) # loc[p].lbr
          THEN /\ Return(p, "err", IF f THEN "Store" ELSE "Conflict", NilStatus)
               /\ obs' = [obs EXCEPT ![p] = Used(p)]
               /\ loadBalancerRoutings' = loadBalancerRoutings
          ELSE /\ loadBalancerRoutings' =
                        [loadBalancerRoutings EXCEPT ![Key(p)] = Touch(loc[p].lbr, t)]
               /\ obs' = [obs EXCEPT ![p] = [Used(p) EXCEPT !.wrote = TRUE]]
               /\ Return(p, "ok", "", Status(loc[p].ingress))
  /\ UNCHANGED <<loadBalancers, prefixName, nextUid, callers, ncalls, call, names, ident,
                 compute>>

\* ------------------------------------------------ EnsureLoadBalancerDeleted
StartDelete(p) ==
  /\ CanStart(p)
  /\ Begin(p, [NoCall EXCEPT !.op = "delete"], "D_delete", NoRes)
  /\ UNCHANGED <<loadBalancers, loadBalancerRoutings, prefixName, nextUid, faults, callers,
                 names, ident, compute>>

\* EnsureLoadBalancerDeleted returns: to its caller, or into EnsureLoadBalancer,
\* which goes on with the apply after a nil error
DeleteReturns(p, err) ==
  IF call[p].op = "ensure" /\ err = ""
  THEN /\ pc' = [pc EXCEPT ![p] = "E_apply"]
       /\ res' = res
       /\ loc' = [loc EXCEPT ![p].polls = 0]
  ELSE Return(p, IF err = "" THEN "ok" ELSE "err", err, NilStatus)

\* the Delete request
DeleteRequest(p) ==
  /\ pc[p] = "D_delete"
  /\ \E f \in BOOLEAN :
       /\ MayFault(f)
       /\ CountFault(f)
       /\ IF f
          THEN /\ DeleteReturns(p, "Store")
               /\ loadBalancers' = loadBalancers
          ELSE IF ~LB(p).exists
          THEN /\ DeleteReturns(p, "")
               /\ loadBalancers' = loadBalancers
          ELSE /\ loadBalancers' =
                    [loadBalancers EXCEPT ![Key(p)] = [LB(p) EXCEPT !.deleting = TRUE]]
               /\ loc' = [loc EXCEPT ![p].polls = 0]
               /\ pc' = [pc EXCEPT ![p] = "D_wait"]
               /\ res' = res
  /\ obs' = [obs EXCEPT ![p] = Used(p)]
  /\ UNCHANGED <<loadBalancerRoutings, prefixName, nextUid, callers, ncalls, call, names,
                 ident, compute>>

\* one round of waitForDeletingLoadBalancer's backoff loop
DeleteWaitPoll(p) ==
  /\ pc[p] = "D_wait"
  /\ \E o \in PollOutcomes(p) :
       /\ o = "fault" => faults < MaxFaults
       /\ CountFault(o = "fault")
       /\ obs' = [obs EXCEPT ![p] = IF o = "ctx" THEN obs[p] ELSE Used(p)]
       /\ CASE o = "ctx" ->
                 DeleteReturns(p, IF WaitOutcome("ContextDone") = "timeout"
                                  THEN "Timeout" ELSE "")
            [] o = "fault" ->
                 \* !apierrors.IsNotFound(err): the condition returns the error
                 DeleteReturns(p, IF WaitOutcome("GetError") = "timeout"
                                  THEN "Timeout" ELSE "")
            [] o = "answer" /\ ~LB(p).exists ->
                 DeleteReturns(p, "")
            [] o = "answer" /\ LB(p).exists ->
                 IF BackoffExhausted(loc[p].polls)
                 THEN DeleteReturns(p, IF WaitOutcome("ErrWaitTimeout") = "timeout"
                                       THEN "Timeout" ELSE "")
                 ELSE /\ loc' = [loc EXCEPT ![p].polls = @ + 1]
                      /\ pc' = pc
                      /\ res' = res
  /\ UNCHANGED <<loadBalancers, loadBalancerRoutings, prefixName, nextUid, callers, ncalls,
                 call, names, ident, compute>>

\* ------------------------------------------------------ UpdateLoadBalancer
\* an UpdateLoadBalancer that does not look at the length of the node list
NeverNoNodes(nodes) == FALSE

\* len(nodes) == 0
NoNodes(nodes) == Len(nodes) = 0

\* the check of the node list, before any request
StartUpdate(p) ==
  /\ CanStart(p)
  /\ \E nodes \in NodeLists :
       LET c == [NoCall EXCEPT !.op = "update", !.nodes = nodes]
       IN  IF NoNodes(nodes)
           THEN Begin(p, c, "done", [NoRes EXCEPT !.state = "err", !.err = "NoNodes"])
           ELSE Begin(p, c, "U_getLB", NoRes)
  /\ UNCHANGED <<loadBalancers, loadBalancerRoutings, prefixName, nextUid, faults, callers,
                 names, ident, compute>>

UpdateGetLoadBalancer(p) ==
  /\ pc[p] = "U_getLB"
  /\ \E f \in BOOLEAN :
       /\ MayFault(f)
       /\ CountFault(f)
       /\ IF f \/ ~LB(p).exists
          THEN Return(p, "err", IF f THEN "Store" ELSE "NotFound", NilStatus)
          ELSE /\ loc' = [loc EXCEPT ![p].lbUid = LB(p).uid]
               /\ pc' = [pc EXCEPT ![p] = "U_getLBR"]
               /\ res' = res
  /\ obs' = [obs EXCEPT ![p] = Used(p)]
  /\ UNCHANGED <<loadBalancers, loadBalancerRoutings, prefixName, nextUid, callers, ncalls,
                 call, names, ident, compute>>

UpdateGetRouting(p) ==
  /\ pc[p] = "U_getLBR"
  /\ \E f \in BOOLEAN :
       /\ MayFault(f)
       /\ CountFault(f)
       /\ IF f \/ ~LBR(p).exists
          THEN Return(p, "err", IF f THEN "Store" ELSE "NotFound", NilStatus)
          ELSE /\ loc' = [loc EXCEPT ![p].lbr = LBR(p)]
               /\ pc' = [pc EXCEPT ![p] = "U_patch"]
               /\ res' = res
  /\ obs' = [obs EXCEPT ![p] = Used(p)]
  /\ UNCHANGED <<loadBalancers, loadBalancerRoutings, prefixName, nextUid, callers, ncalls,
                 call, names, ident, compute>>

\* a patch computed against an empty object: it carries the whole changed
\* object, metadata aside
PatchFromEmpty(cur, base, modified) ==
  [NoRouting EXCEPT !.exists = TRUE, !.dest = modified.dest]

\* client.MergeFrom(base): the patch sent is the difference between the fetched
\* object and the changed one; only Destinations was changed, so the patch is
\* empty when the new list equals the fetched one and otherwise replaces the
\* stored list by the new one
MergeFromPatch(cur, base, modified) ==
  IF modified.dest = base.dest THEN cur ELSE [cur EXCEPT !.dest = modified.dest]

\* the resolution and the Patch of the routing object
UpdatePatch(p) ==
  /\ pc[p] = "U_patch"
  /\ LET r == getNetworkInterfacesForNodes(call[p].nodes, NetworkName)
         modified == [loc[p].lbr EXCEPT !.dest = UpdateDestinations(r.nis)]
     IN  \E f \in BOOLEAN :
           /\ MayFault(f)
           /\ CountFault(f)
           /\ IF f \/ r.err \/ ~LBR(p).exists
              THEN /\ Return(p, "err",
                             IF f THEN "Store" ELSE IF r.err THEN "Resolve" ELSE "NotFound",
                             NilStatus)
                   /\ obs' = [obs EXCEPT ![p] = Used(p)]
                   /\ loadBalancerRoutings' = loadBalancerRoutings
              ELSE /\ loadBalancerRoutings' =
                        [loadBalancerRoutings EXCEPT ![Key(p)] =
                           MergeFromPatch(LBR(p), loc[p].lbr, modified)]
                   /\ obs' = [obs EXCEPT ![p] = [Used(p) EXCEPT !.wrote = TRUE]]
                   /\ Return(p, "ok", "", NilStatus)
  /\ UNCHANGED <<loadBalancers, prefixName, nextUid, callers, ncalls, call, names, ident,
                 compute>>

\* --------------------------------------------------------- GetLoadBalancer
StartLookup(p) ==
  /\ CanStart(p)
  /\ Begin(p, [NoCall EXCEPT !.op = "lookup"], "G_get", NoRes)
  /\ UNCHANGED <<loadBalancers, loadBalancerRoutings, prefixName, nextUid, faults, callers,
                 names, ident, compute>>

\* the Get of the LoadBalancer and the return: nil, false and the error after
\* any error of the Get, otherwise the status built from status.ips, true, nil
GetLoadBalancer(p) ==
  /\ pc[p] = "G_get"
  /\ \E f \in BOOLEAN :
       /\ MayFault(f)
       /\ CountFault(f)
       /\ IF f \/ ~LB(p).exists
          THEN Return(p, "err", IF f THEN "Store" ELSE "NotFound", NilStatus)
          ELSE /\ pc' = [pc EXCEPT ![p] = "done"]
               /\ res' = [res EXCEPT ![p] =
                            [NoRes EXCEPT !.state = "ok",
                                          !.status = Status(ToIngress(LB(p).ips)),
                                          !.exists = TRUE]]
               /\ loc' = [loc EXCEPT ![p] = NoLoc]
  /\ obs' = [obs EXCEPT ![p] = Used(p)]
  /\ UNCHANGED <<loadBalancers, loadBalancerRoutings, prefixName, nextUid, callers, ncalls,
                 call, names, ident, compute>>

\* ------------------------------------------------------- onmetalInstancesV2
\* o.clusterName
InstancesClusterName == <<"a">>
\* o.onmetalNamespace
OnmetalNamespace == "ns"
\* ProviderName, whose value is declared in another file of the package
ProviderName == "onmetal"

\* the *corev1.Node arguments of the instance operations, as lists: the empty
\* list is the nil node, a one-element list holds the node's name and
\* spec.providerID
InstanceNodes ==
  { <<>>,
    << [name |-> <<"m1">>, providerID |-> <<>>] >>,
    << [name |-> <<"m2">>, providerID |-> <<"given">>] >>,
    << [name |-> <<"m2">>, providerID |-> <<>>] >>,
    << [name |-> <<"m3">>, providerID |-> <<>>] >>,
    << [name |-> <<"m5">>, providerID |-> <<>>] >> }

\* onmetalClient.Get of the Machine named node.Name: the objects of that name
\* (one or none)
MachinesNamed(name) == {m \in Machines : m.name = name}

\* a reading of the state that takes every state but Running for a shutdown
NotRunning(state) == state # "Running"

\* machine.Status.State == computev1alpha1.MachineStateShutdown
IsShutdown(state) == state = "Shutdown"

\* client.MergeFrom(base) on an object of which only the labels were changed:
\* the patch carries the labels that differ from the fetched ones, and the
\* store sets those
MergeFromLabels(cur, base, modified) ==
  [k \in DOMAIN cur |-> IF modified[k] # base[k] THEN modified[k] ELSE cur[k]]

\* a label map made anew for the cluster-name label
FreshLabels(labels) == LabelsOf(InstancesClusterName, NoLabel)

\* labels[LabeKeylClusterName] = o.clusterName
SetClusterLabel(labels) == [labels EXCEPT !.cluster = InstancesClusterName]

\* fmt.Sprintf("%s://%s/%s", ProviderName, o.onmetalNamespace, machine.Name)
SprintfProviderID(provider, namespace, name) ==
  <<provider, ":", "/", "/", namespace, "/">> \o name

\* providerID := node.Spec.ProviderID; if providerID == "" { ... }
ProviderIDOf(node, machine) ==
  IF node.providerID = <<>>
  THEN SprintfProviderID(ProviderName, OnmetalNamespace, machine.name)
  ELSE node.providerID

\* the nil check of the three operations: a nil node returns the zero result
\* and a nil error before any request
StartInstance(p, op, first) ==
  /\ CanStart(p)
  /\ \E node \in InstanceNodes :
       LET c == [NoCall EXCEPT !.op = op, !.nodes = node]
       IN  IF node = <<>>
           THEN Begin(p, c, "done", [NoRes EXCEPT !.state = "ok"])
           ELSE Begin(p, c, first, NoRes)
  /\ UNCHANGED <<loadBalancers, loadBalancerRoutings, prefixName, nextUid, faults, callers,
                 names, ident, compute>>

StartInstanceExists(p) == StartInstance(p, "exists", "X_get")
StartInstanceShutdown(p) == StartInstance(p, "shutdown", "S_get")
StartInstanceMetadata(p) == StartInstance(p, "metadata", "M_machine")

\* what the three operations return after a failed Get of the Machine
InstanceGetFailed(p, f) ==
  Return(p, "err", IF f THEN "Store" ELSE "InstanceNotFound", NilStatus)

\* InstanceExists: the Get of the Machine and the return
InstanceExists(p) ==
  /\ pc[p] = "X_get"
  /\ \E f \in BOOLEAN :
       /\ MayFault(f)
       /\ CountFault(f)
       /\ IF f \/ MachinesNamed(call[p].nodes[1].name) = {}
          THEN InstanceGetFailed(p, f)
          ELSE /\ pc' = [pc EXCEPT ![p] = "done"]
               /\ res' = [res EXCEPT ![p] = [NoRes EXCEPT !.state = "ok", !.exists = TRUE]]
               /\ loc' = [loc EXCEPT ![p] = NoLoc]
  /\ obs' = [obs EXCEPT ![p] = Used(p)]
  /\ UNCHANGED <<loadBalancers, loadBalancerRoutings, prefixName, nextUid, callers, ncalls,
                 call, names, ident, compute>>

\* InstanceShutdown: the Get of the Machine and the return
InstanceShutdown(p) ==
  /\ pc[p] = "S_get"
  /\ \E f \in BOOLEAN :
       /\ MayFault(f)
       /\ CountFault(f)
       /\ IF f \/ MachinesNamed(call[p].nodes[1].name) = {}
          THEN InstanceGetFailed(p, f)
          ELSE /\ pc' = [pc EXCEPT ![p] = "done"]
               /\ res' = [res EXCEPT ![p] =
                            [NoRes EXCEPT
                               !.state = "ok",
                               !.exists =
                                  IsShutdown(compute.machineState[call[p].nodes[1].name])]]
               /\ loc' = [loc EXCEPT ![p] = NoLoc]
  /\ obs' = [obs EXCEPT ![p] = Used(p)]
  /\ UNCHANGED <<loadBalancers, loadBalancerRoutings, prefixName, nextUid, callers, ncalls,
                 call, names, ident, compute>>

\* what answers a Get followed by a Patch of the fetched object: an error to
\* the Get, an error to the Patch, or both are served
LabelOutcomes == {"getFault", "patchFault", "served"}

\* InstanceMetadata: the Get of the Machine and the Patch of its labels.  Nothing
\* else writes the labels, so the two requests are one step.
MetadataLabelMachine(p) ==
  /\ pc[p] = "M_machine"
  /\ \E o \in LabelOutcomes :
       LET name == call[p].nodes[1].name
           f == o # "served"
       IN  /\ MayFault(f)
           /\ CountFault(f)
           /\ IF o = "getFault" \/ MachinesNamed(name) = {}
              THEN /\ InstanceGetFailed(p, o = "getFault")
                   /\ compute' = compute
              ELSE IF o = "patchFault"
              THEN /\ Return(p, "err", "Store", NilStatus)
                   /\ compute' = compute
              ELSE LET base == compute.machineLabels[name]
                   IN  /\ compute' =
                            [compute EXCEPT !.machineLabels[name] =
                               MergeFromLabels(@, base, SetClusterLabel(base))]
                       /\ loc' = [loc EXCEPT ![p].nic = 1]
                       /\ pc' = [pc EXCEPT ![p] = "M_nic"]
                       /\ res' = res
  /\ obs' = [obs EXCEPT ![p] = Used(p)]
  /\ UNCHANGED <<loadBalancers, loadBalancerRoutings, prefixName, nextUid, callers, ncalls,
                 call, names, ident>>

\* one round of the loop over machine.Spec.NetworkInterfaces: the Get of the
\* NetworkInterface named after the machine and the attachment, and the Patch of
\* its labels
MetadataLabelInterface(p) ==
  /\ pc[p] = "M_nic"
  /\ LET machine == GetMachine(call[p].nodes[1].name)
     IN  /\ loc[p].nic <= Len(machine.nics)
         /\ \E o \in LabelOutcomes :
              LET nicName == SprintfDash(machine.name, machine.nics[loc[p].nic].name)
                  f == o # "served"
              IN  /\ MayFault(f)
                  /\ CountFault(f)
                  /\ IF f \/ GetNetworkInterface(nicName) = {}
                     THEN /\ Return(p, "err", IF f THEN "Store" ELSE "NotFound", NilStatus)
                          /\ compute' = compute
                     ELSE LET base == compute.nicLabels[nicName]
                          IN  /\ compute' =
                                   [compute EXCEPT !.nicLabels[nicName] =
                                      MergeFromLabels(@, base, SetClusterLabel(base))]
                              /\ loc' = [loc EXCEPT ![p].nic = @ + 1]
                              /\ pc' = pc
                              /\ res' = res
  /\ obs' = [obs EXCEPT ![p] = Used(p)]
  /\ UNCHANGED <<loadBalancers, loadBalancerRoutings, prefixName, nextUid, callers, ncalls,
                 call, names, ident>>

\* after the loop: the provider ID is chosen and the metadata returned
MetadataReturn(p) ==
  /\ pc[p] = "M_nic"
  /\ LET machine == GetMachine(call[p].nodes[1].name)
     IN  /\ loc[p].nic > Len(machine.nics)
         /\ res' = [res EXCEPT ![p] =
                      [NoRes EXCEPT !.state = "ok",
                                    !.meta = Metadata(ProviderIDOf(call[p].nodes[1], machine))]]
  /\ pc' = [pc EXCEPT ![p] = "done"]
  /\ loc' = [loc EXCEPT ![p] = NoLoc]
  /\ UNCHANGED <<loadBalancers, loadBalancerRoutings, prefixName, nextUid, faults, callers,
                 ncalls, call, obs, names, ident, compute>>

\* ------------------------------------------------------ the rest of the world
\* the provisioning side writes status.ips of the stored LoadBalancer
SetStatusIPs ==
  /\ \E n \in LoadBalancerNames :
       /\ loadBalancers[n].exists
       /\ \E ips \in IPLists \ {loadBalancers[n].ips} :
            loadBalancers' = [loadBalancers EXCEPT ![n].ips = ips]
  /\ UNCHANGED <<loadBalancerRoutings, prefixName, nextUid, faults, callers, ncalls, pc,
                 call, loc, res, obs, names, ident, compute>>

\* a LoadBalancer whose deletion was accepted disappears
Finalize ==
  /\ \E n \in LoadBalancerNames :
       /\ loadBalancers[n].exists /\ loadBalancers[n].deleting
       /\ loadBalancers' = [loadBalancers EXCEPT ![n] = NoLB]
  /\ UNCHANGED <<loadBalancerRoutings, prefixName, nextUid, faults, callers, ncalls, pc,
                 call, loc, res, obs, names, ident, compute>>

\* ------------------------------------------------------------ specification
\* the steps of EnsureLoadBalancer and EnsureLoadBalancerDeleted
EnsureAndDelete ==
  \/ \E p \in callers : StartEnsure(p)
  \/ \E p \in callers : EnsureGetExisting(p)
  \/ \E p \in callers : EnsureApply(p)
  \/ \E p \in callers : EnsureApplyRouting(p)
  \/ \E p \in callers : EnsureWaitPoll(p)
  \/ \E p \in callers : TouchGet(p)
  \/ \E p \in callers : TouchUpdate(p)
  \/ \E p \in callers : StartDelete(p)
  \/ \E p \in callers : DeleteRequest(p)
  \/ \E p \in callers : DeleteWaitPoll(p)
  \/ \E p \in callers : CancelContext(p)

\* the steps of UpdateLoadBalancer
Update ==
  \/ \E p \in callers : StartUpdate(p)
  \/ \E p \in callers : UpdateGetLoadBalancer(p)
  \/ \E p \in callers : UpdateGetRouting(p)
  \/ \E p \in callers : UpdatePatch(p)

\* the steps of GetLoadBalancer
Lookup ==
  \/ \E p \in callers : StartLookup(p)
  \/ \E p \in callers : GetLoadBalancer(p)

Next == EnsureAndDelete \/ Update \/ Lookup \/ SetStatusIPs \/ Finalize

\* one caller issuing calls one after the other, while the provisioning
\* side writes the status and completes deletions
Spec == Init /\ [][Next]_vars

\* the same caller while nothing ever writes status.ips
NextEmptyStatus == EnsureAndDelete \/ Update \/ Lookup \/ Finalize

SpecEmptyStatus == Init /\ [][NextEmptyStatus]_vars

\* Two callers issuing UpdateLoadBalancer calls at the same time for a load
\* balancer that an earlier EnsureLoadBalancer has applied together with its
\* routing object (for some node list that resolved without error).
InitUpdates ==
  /\ prefixName \in PrefixNames
  /\ loadBalancers = StoreOf(ApplyLoadBalancer(NoLB, LoadBalancerTypePublic, prefixName, 1), NoLB)
  /\ nextUid = 2
  /\ \E nodes \in NodeLists :
       LET r == getNetworkInterfacesForNodes(nodes, NetworkName)
       IN  /\ ~r.err
           /\ loadBalancerRoutings =
                  StoreOf(ApplyRouting(NoRouting, RoutingDestinations(r.nis), 1, ThisName),
                          NoRouting)
  /\ faults = 0
  /\ callers = Procs
  /\ ncalls = 0
  /\ pc = [p \in Procs |-> "idle"]
  /\ call = [p \in Procs |-> NoCall]
  /\ loc = [p \in Procs |-> NoLoc]
  /\ res = [p \in Procs |-> NoRes]
  /\ obs = [p \in Procs |-> NoObs]
  /\ names = {}
  /\ ident = [p \in callers |-> ThisIdentity]
  /\ compute = InitialCompute(NoLabel, "Running")

SpecUpdates == InitUpdates /\ [][Update]_vars

\* Two callers running EnsureLoadBalancer at the same time with the same Service
\* and the same node list, on a store that holds no LoadBalancer of the name or
\* one of either type with its routing object.  The node list has at most one
\* node, and the store answers every request of these calls with the object or
\* with NotFound, never with another error.
InitEnsures ==
  /\ prefixName \in PrefixNames
  /\ \/ /\ loadBalancers = StoreOf(NoLB, NoLB)
        /\ loadBalancerRoutings = StoreOf(NoRouting, NoRouting)
        /\ nextUid = 1
     \/ /\ \E type \in {LoadBalancerTypePublic, LoadBalancerTypeInternal} :
             /\ type = LoadBalancerTypeInternal => prefixName # <<>>
             /\ loadBalancers = StoreOf(ApplyLoadBalancer(NoLB, type, prefixName, 1), NoLB)
        /\ loadBalancerRoutings =
               StoreOf(ApplyRouting(NoRouting, <<>>, 1, ThisName), NoRouting)
        /\ nextUid = 2
  /\ faults = MaxFaults
  /\ callers = Procs
  /\ ncalls = Cardinality(Procs)
  /\ pc = [p \in Procs |-> "E_get"]
  /\ \E annotation \in {NoLabel, <<"true">>}, nodes \in SeqsUpTo(Nodes, 1),
        st \in ServiceStatuses :
       call = [p \in Procs |->
                 [op |-> "ensure", annotation |-> annotation, nodes |-> nodes,
                  svcStatus |-> st, given |-> TRUE, ctxDone |-> FALSE]]
  /\ loc = [p \in Procs |-> NoLoc]
  /\ res = [p \in Procs |-> NoRes]
  /\ obs = [p \in Procs |-> NoObs]
  /\ names = {}
  /\ ident = [p \in callers |-> ThisIdentity]
  /\ compute = InitialCompute(NoLabel, "Running")

\* the steps of the running calls and of the provisioning side
NextEnsures ==
  \/ \E p \in callers : EnsureGetExisting(p)
  \/ \E p \in callers : EnsureApply(p)
  \/ \E p \in callers : EnsureApplyRouting(p)
  \/ \E p \in callers : EnsureWaitPoll(p)
  \/ \E p \in callers : TouchGet(p)
  \/ \E p \in callers : TouchUpdate(p)
  \/ \E p \in callers : DeleteRequest(p)
  \/ \E p \in callers : DeleteWaitPoll(p)
  \/ SetStatusIPs
  \/ Finalize

SpecEnsures == InitEnsures /\ [][NextEnsures]_vars

\* Two callers with different identities, whose derived names differ, each in
\* one call of EnsureLoadBalancer, UpdateLoadBalancer or EnsureLoadBalancerDeleted
\* at the same time.  Under each of the two names the store holds nothing or a
\* Public LoadBalancer with its routing object.  The node list has one node.
FirstStep(op) ==
  CASE op = "ensure" -> "E_get"
    [] op = "update" -> "U_getLB"
    [] op = "delete" -> "D_delete"

InitIdentities ==
  /\ prefixName = <<"prefix">>
  /\ \E stored \in [LoadBalancerNames -> BOOLEAN] :
       LET uid(n) == IF n = ThisName THEN 1 ELSE 2
       IN  /\ loadBalancers =
                [n \in LoadBalancerNames |->
                   IF stored[n]
                   THEN ApplyLoadBalancer(NoLB, LoadBalancerTypePublic, prefixName, uid(n))
                   ELSE NoLB]
           /\ loadBalancerRoutings =
                [n \in LoadBalancerNames |->
                   IF stored[n] THEN ApplyRouting(NoRouting, <<>>, uid(n), n) ELSE NoRouting]
  /\ nextUid = 3
  /\ faults = 0
  /\ callers = Procs
  /\ ncalls = Cardinality(Procs)
  /\ ident = [p \in Procs |-> IF p = 1 THEN ThisIdentity ELSE OtherIdentity]
  /\ \E op \in [Procs -> {"ensure", "update", "delete"}],
        annotation \in [Procs -> {NoLabel, <<"true">>}] :
       /\ pc = [p \in Procs |-> FirstStep(op[p])]
       /\ call = [p \in Procs |->
                    [op |-> op[p],
                     annotation |-> IF op[p] = "ensure" THEN annotation[p] ELSE NoLabel,
                     nodes |-> IF op[p] = "delete" THEN <<>> ELSE <<CHOOSE n \in Nodes : TRUE>>,
                     svcStatus |-> <<>>, given |-> TRUE, ctxDone |-> FALSE]]
  /\ loc = [p \in Procs |-> NoLoc]
  /\ res = [p \in Procs |-> NoRes]
  /\ obs = [p \in Procs |-> NoObs]
  /\ names = {}
  /\ compute = InitialCompute(NoLabel, "Running")

\* the steps of the running calls and of the provisioning side
NextIdentities ==
  \/ \E p \in callers : EnsureGetExisting(p)
  \/ \E p \in callers : EnsureApply(p)
  \/ \E p \in callers : EnsureApplyRouting(p)
  \/ \E p \in callers : EnsureWaitPoll(p)
  \/ \E p \in callers : TouchGet(p)
  \/ \E p \in callers : TouchUpdate(p)
  \/ \E p \in callers : DeleteRequest(p)
  \/ \E p \in callers : DeleteWaitPoll(p)
  \/ \E p \in callers : UpdateGetLoadBalancer(p)
  \/ \E p \in callers : UpdateGetRouting(p)
  \/ \E p \in callers : UpdatePatch(p)
  \/ SetStatusIPs
  \/ Finalize

SpecIdentities == InitIdentities /\ [][NextIdentities]_vars

\* One caller in EnsureLoadBalancer or UpdateLoadBalancer with a list of up to
\* MaxNodes nodes, some of which have a provider ID that yields no machine name.
\* The store holds nothing of the name or a Public LoadBalancer with its routing
\* object.
InitProviderIDs ==
  /\ prefixName = <<>>
  /\ \E stored \in BOOLEAN :
       /\ loadBalancers =
            StoreOf(IF stored
                    THEN ApplyLoadBalancer(NoLB, LoadBalancerTypePublic, prefixName, 1)
                    ELSE NoLB, NoLB)
       /\ loadBalancerRoutings =
            StoreOf(IF stored THEN ApplyRouting(NoRouting, <<>>, 1, ThisName) ELSE NoRouting,
                    NoRouting)
  /\ nextUid = 2
  /\ faults = 0
  /\ callers = {1}
  /\ ncalls = 1
  /\ ident = [p \in callers |-> ThisIdentity]
  /\ \E op \in {"ensure", "update"},
        nodes \in SeqsUpTo(Nodes \cup NodesWithoutMachineName, MaxNodes) \ {<<>>} :
       /\ pc = [p \in {1} |-> FirstStep(op)]
       /\ call = [p \in {1} |->
                    [op |-> op, annotation |-> NoLabel, nodes |-> nodes,
                     svcStatus |-> <<>>, given |-> TRUE, ctxDone |-> FALSE]]
  /\ loc = [p \in {1} |-> NoLoc]
  /\ res = [p \in {1} |-> NoRes]
  /\ obs = [p \in {1} |-> NoObs]
  /\ names = {}
  /\ compute = InitialCompute(NoLabel, "Running")

\* the steps of the running call and of the provisioning side
NextProviderIDs ==
  \/ \E p \in callers : EnsureGetExisting(p)
  \/ \E p \in callers : EnsureApply(p)
  \/ \E p \in callers : EnsureApplyRouting(p)
  \/ \E p \in callers : EnsureWaitPoll(p)
  \/ \E p \in callers : TouchGet(p)
  \/ \E p \in callers : TouchUpdate(p)
  \/ \E p \in callers : UpdateGetLoadBalancer(p)
  \/ \E p \in callers : UpdateGetRouting(p)
  \/ \E p \in callers : UpdatePatch(p)
  \/ SetStatusIPs

SpecProviderIDs == InitProviderIDs /\ [][NextProviderIDs]_vars

\* One caller whose EnsureLoadBalancer has returned success and who has entered
\* EnsureLoadBalancer again with the same Service and node list; nothing else
\* writes to the store.
InitEnsureAgain ==
  /\ prefixName \in PrefixNames
  /\ \E annotation \in Annotations, nodes \in NodeLists, st \in ServiceStatuses,
        ips \in IPLists, t \in Times :
       LET c == [op |-> "ensure", annotation |-> annotation, nodes |-> nodes,
                 svcStatus |-> st, given |-> TRUE, ctxDone |-> FALSE]
           r == getNetworkInterfacesForNodes(nodes, NetworkName)
       IN  /\ DesiredType(c) = LoadBalancerTypeInternal => prefixName # <<>>
           /\ ~r.err
           /\ loadBalancers =
                StoreOf([ApplyLoadBalancer(NoLB, DesiredType(c), prefixName, 1)
                           EXCEPT !.ips = ips], NoLB)
           /\ loadBalancerRoutings =
                  StoreOf(Touch(ApplyRouting(NoRouting, RoutingDestinations(r.nis), 1, ThisName),
                                t), NoRouting)
           /\ call = [p \in {1} |-> c]
  /\ nextUid = 2
  /\ faults = 0
  /\ callers = {1}
  /\ ncalls = MaxCalls
  /\ pc = [p \in {1} |-> "E_get"]
  /\ loc = [p \in {1} |-> NoLoc]
  /\ res = [p \in {1} |-> NoRes]
  /\ obs = [p \in {1} |-> [NoObs EXCEPT !.after = [op |-> "ensure", state |-> "ok"]]]
  /\ names = {}
  /\ ident = [p \in callers |-> ThisIdentity]
  /\ compute = InitialCompute(NoLabel, "Running")

\* the steps of that call up to its return
NextEnsureAgain ==
  \/ \E p \in callers : EnsureGetExisting(p)
  \/ \E p \in callers : EnsureApply(p)
  \/ \E p \in callers : EnsureApplyRouting(p)
  \/ \E p \in callers : EnsureWaitPoll(p)
  \/ \E p \in callers : TouchGet(p)
  \/ \E p \in callers : TouchUpdate(p)

SpecEnsureAgain == InitEnsureAgain /\ [][NextEnsureAgain]_vars

\* One caller, starting where an earlier EnsureLoadBalancer for at most one
\* node has left a LoadBalancer (with or without status.ips) and its routing
\* object.
InitExisting ==
  /\ prefixName \in PrefixNames
  /\ \E type \in {LoadBalancerTypePublic, LoadBalancerTypeInternal}, ips \in IPLists :
       /\ type = LoadBalancerTypeInternal => prefixName # <<>>
       /\ loadBalancers =
            StoreOf([ApplyLoadBalancer(NoLB, type, prefixName, 1) EXCEPT !.ips = ips], NoLB)
  /\ nextUid = 2
  /\ \E nodes \in SeqsUpTo(Nodes, 1), t \in Times :
       LET r == getNetworkInterfacesForNodes(nodes, NetworkName)
       IN  /\ ~r.err
           /\ loadBalancerRoutings =
                  StoreOf(Touch(ApplyRouting(NoRouting, RoutingDestinations(r.nis), 1, ThisName),
                                t), NoRouting)
  /\ faults = 0
  /\ callers = {1}
  /\ ncalls = 0
  /\ pc = [p \in {1} |-> "idle"]
  /\ call = [p \in {1} |-> NoCall]
  /\ loc = [p \in {1} |-> NoLoc]
  /\ res = [p \in {1} |-> NoRes]
  /\ obs = [p \in {1} |-> NoObs]
  /\ names = {}
  /\ ident = [p \in callers |-> ThisIdentity]
  /\ compute = InitialCompute(NoLabel, "Running")

SpecExisting == InitExisting /\ [][Next]_vars

\* One caller, starting where an EnsureLoadBalancer for a Service with the
\* annotation "true" has left an Internal LoadBalancer (the object with UID 1)
\* and its routing object.
InitInternal ==
  /\ prefixName \in PrefixNames \ {<<>>}
  /\ \E ips \in IPLists :
       loadBalancers =
         StoreOf([ApplyLoadBalancer(NoLB, LoadBalancerTypeInternal, prefixName, 1)
                    EXCEPT !.ips = ips], NoLB)
  /\ nextUid = 2
  /\ \E nodes \in SeqsUpTo(Nodes, 1), t \in Times :
       LET r == getNetworkInterfacesForNodes(nodes, NetworkName)
       IN  /\ ~r.err
           /\ loadBalancerRoutings =
                  StoreOf(Touch(ApplyRouting(NoRouting, RoutingDestinations(r.nis), 1, ThisName),
                                t), NoRouting)
  /\ faults = 0
  /\ callers = {1}
  /\ ncalls = 0
  /\ pc = [p \in {1} |-> "idle"]
  /\ call = [p \in {1} |-> NoCall]
  /\ loc = [p \in {1} |-> NoLoc]
  /\ res = [p \in {1} |-> NoRes]
  /\ obs = [p \in {1} |-> NoObs]
  /\ names = {}
  /\ ident = [p \in callers |-> ThisIdentity]
  /\ compute = InitialCompute(NoLabel, "Running")

SpecInternal == InitInternal /\ [][Next]_vars

\* the caller of SpecExisting while no LoadBalancer whose deletion was accepted
\* ever disappears
NextNoFinalize == EnsureAndDelete \/ Update \/ Lookup \/ SetStatusIPs

SpecNoFinalize == InitExisting /\ [][NextNoFinalize]_vars

\* One caller issuing InstanceExists, InstanceShutdown and InstanceMetadata calls
\* one after the other, on a compute side whose objects have no cluster-name
\* label yet, the label of another cluster or the label of this one.
InitInstances ==
  /\ loadBalancers = StoreOf(NoLB, NoLB)
  /\ loadBalancerRoutings = StoreOf(NoRouting, NoRouting)
  /\ prefixName = <<>>
  /\ nextUid = 1
  /\ faults = 0
  /\ callers = {1}
  /\ ncalls = 0
  /\ pc = [p \in {1} |-> "idle"]
  /\ call = [p \in {1} |-> NoCall]
  /\ loc = [p \in {1} |-> NoLoc]
  /\ res = [p \in {1} |-> NoRes]
  /\ obs = [p \in {1} |-> NoObs]
  /\ names = {}
  /\ ident = [p \in callers |-> ThisIdentity]
  /\ \E cluster \in {NoLabel, <<"old">>, InstancesClusterName}, state \in MachineStates :
       compute = InitialCompute(cluster, state)

NextInstances ==
  \/ \E p \in callers : StartInstanceExists(p)
  \/ \E p \in callers : InstanceExists(p)
  \/ \E p \in callers : StartInstanceShutdown(p)
  \/ \E p \in callers : InstanceShutdown(p)
  \/ \E p \in callers : StartInstanceMetadata(p)
  \/ \E p \in callers : MetadataLabelMachine(p)
  \/ \E p \in callers : MetadataLabelInterface(p)
  \/ \E p \in callers : MetadataReturn(p)

SpecInstances == InitInstances /\ [][NextInstances]_vars

\* ------------------------------------------------------------ name derivation
\* an operation derives the name of the LoadBalancer it is about to address
DeriveName(op, clusterName, service, name) ==
  /\ Cardinality(names) < MaxNames
  /\ names' = names \cup
                {[op |-> op, clusterName |-> clusterName, service |-> service, name |-> name]}
  /\ UNCHANGED <<loadBalancers, loadBalancerRoutings, ident, prefixName, nextUid, faults,
                 callers, ncalls, pc, call, loc, res, obs, compute>>

\* GetLoadBalancer: loadBalancerName := o.GetLoadBalancerName(...)
NameInLookup ==
  \E c \in ClusterNames, svc \in Services :
    DeriveName("lookup", c, svc, GetLoadBalancerName(c, svc))

\* EnsureLoadBalancer: loadBalancerName := getLoadBalancerNameForService(...)
NameInEnsure ==
  \E c \in ClusterNames, svc \in Services :
    DeriveName("ensure", c, svc, getLoadBalancerNameForService(c, svc))

\* UpdateLoadBalancer: loadBalancerName := o.GetLoadBalancerName(...)
NameInUpdate ==
  \E c \in ClusterNames, svc \in Services :
    DeriveName("update", c, svc, GetLoadBalancerName(c, svc))

\* EnsureLoadBalancerDeleted: loadBalancerName := o.GetLoadBalancerName(...)
NameInDelete ==
  \E c \in ClusterNames, svc \in Services :
    DeriveName("delete", c, svc, GetLoadBalancerName(c, svc))

NextNames == NameInLookup \/ NameInEnsure \/ NameInUpdate \/ NameInDelete

\* the operations deriving names for any cluster names and Services
SpecNames == Init /\ [][NextNames]_vars

\* ================================================================= claims
Range(s) == {s[i] : i \in 1..Len(s)}

Finished(p, op) == call[p].op = op /\ pc[p] = "done"
Succeeded(p, op) == Finished(p, op) /\ res[p].state = "ok"

\* C1: a stored LoadBalancer object instance never changes its type: no apply
\* request of EnsureLoadBalancer carries a spec.type other than the type of the
\* LoadBalancer stored under the name at that moment, and no step leaves the
\* same object (same UID) in the store with another spec.type.
C1_TypeFixedPerInstance ==
  [][/\ \A p \in callers :
         (/\ pc[p] = "E_apply" /\ pc'[p] # "E_apply"
          /\ res'[p].err # "Config"
          /\ lb.exists) => lb.type = DesiredType(call[p])
     /\ (lb.exists /\ lb'.exists /\ lb'.uid = lb.uid) => lb'.type = lb.type]_vars

\* C2: EnsureLoadBalancer returns success only with a status whose ingress
\* list is not empty.
C2_SuccessHasIngress ==
  \A p \in callers :
    Succeeded(p, "ensure") => ~res[p].status.nil /\ res[p].status.ingress # <<>>

\* C3: on success the last poll of the activation wait read the LoadBalancer,
\* and the returned ingress list has one entry per IP it read, in the same
\* order, each the IP's string.
C3_IngressFromLastPoll ==
  \A p \in callers :
    Succeeded(p, "ensure") =>
      LET ips == obs[p].lastPoll.ips
          ingress == res[p].status.ingress
      IN  /\ obs[p].lastPoll.kind = "read"
          /\ Len(ingress) = Len(ips)
          /\ \A i \in 1..Len(ips) : ingress[i] = [IP |-> IPString(ips[i])]

\* C4 (checked where status.ips stays empty): the activation wait makes at
\* most waitLoadbalancerActiveSteps polls, and an EnsureLoadBalancer call that
\* entered it returns a Timeout error and no status.
C4_EmptyStatusTimesOut ==
  \A p \in callers :
    /\ pc[p] = "E_wait" => loc[p].polls < waitLoadbalancerActiveSteps
    /\ (Finished(p, "ensure") /\ obs[p].waited) =>
         /\ res[p].state = "err"
         /\ res[p].err = "Timeout"
         /\ res[p].status.nil

\* the compute instance that exists for a node, if any
MachinesOf(node) ==
  {m \in Machines : m.name = extractMachineNameFromProviderID(node.providerID)}

\* the names under which the instance's declared attachments are fetched
DeclaredInterfaceNames(m) ==
  {NetworkInterfaceName(m, m.nics[k]) : k \in 1..Len(m.nics)}

\* the references to the interfaces on the given network that the existing
\* instances behind the nodes declare
ExpectedDestinations(nodes, networkName) ==
  { [name |-> n.name, uid |-> n.uid] :
      n \in { ni \in NetworkInterfaces :
                /\ ni.network = networkName
                /\ \E node \in Range(nodes) : \E m \in MachinesOf(node) :
                     ni.name \in DeclaredInterfaceNames(m) } }

\* C5: after a successful EnsureLoadBalancer or UpdateLoadBalancer the routing
\* object's destinations are, as a set, the interfaces on the LoadBalancer's
\* network declared by the existing instances behind the call's nodes.
C5_DestinationsExact ==
  \A p \in callers :
    (Succeeded(p, "ensure") \/ Succeeded(p, "update")) =>
      /\ routing.exists
      /\ Range(routing.dest) = ExpectedDestinations(call[p].nodes, NetworkName)

\* a successful call for two nodes of which one brings an interface on the
\* network and an interface on another network
C5_Witness ==
  \E p \in callers :
    /\ Succeeded(p, "ensure") \/ Succeeded(p, "update")
    /\ Len(call[p].nodes) = 2
    /\ \E node \in Range(call[p].nodes) : \E m \in MachinesOf(node) :
         \E ni \in NetworkInterfaces :
           ni.name \in DeclaredInterfaceNames(m) /\ ni.network # NetworkName
    /\ Cardinality(Range(routing.dest)) = 2

\* C6: the stored destination list is strictly ascending by UID (sorted, no
\* endpoint twice).
C6_DestinationsSortedUnique ==
  routing.exists =>
    \A i, j \in 1..Len(routing.dest) : i < j => routing.dest[i].uid < routing.dest[j].uid

\* a node of the list has an existing instance that declares an attachment
\* whose interface does not exist
HasUnfetchableInterface(nodes) ==
  \E node \in Range(nodes) : \E m \in MachinesOf(node) :
    \E name \in DeclaredInterfaceNames(m) : \A ni \in NetworkInterfaces : ni.name # name

\* C7: a call whose nodes have a declared interface that cannot be fetched
\* never writes the routing object and ends with an error; resolution fails
\* only then (a node without instance alone makes no call fail).
C7_ResolutionErrors ==
  \A p \in callers :
    call[p].op \in {"ensure", "update"} =>
      /\ HasUnfetchableInterface(call[p].nodes) =>
           /\ ~obs[p].wrote
           /\ pc[p] = "done" => res[p].state = "err"
      /\ res[p].err = "Resolve" => HasUnfetchableInterface(call[p].nodes)
      /\ (\A node \in Range(call[p].nodes) : MachinesOf(node) = {}) => res[p].err # "Resolve"

\* a call failed on an unfetchable interface while a routing object is stored
C7_Witness ==
  \E p \in callers :
    /\ pc[p] = "done" /\ res[p].err = "Resolve"
    /\ \E node \in Range(call[p].nodes) : MachinesOf(node) = {}
    /\ routing.exists /\ ~obs[p].wrote

\* C8: UpdateLoadBalancer with an empty node list has returned an error
\* without a single store request.
C8_EmptyNodeListFails ==
  \A p \in callers :
    (call[p].op = "update" /\ call[p].nodes = <<>>) =>
      /\ pc[p] = "done"
      /\ res[p].state = "err"
      /\ ~obs[p].usedStore
      /\ ~obs[p].wrote

\* such a call while a routing object with destinations is stored
C8_Witness ==
  \E p \in callers :
    /\ call[p].op = "update" /\ call[p].nodes = <<>> /\ pc[p] = "done"
    /\ lb.exists /\ routing.exists /\ routing.dest # <<>>

\* C9: when the Patch of an UpdateLoadBalancer call succeeds, the stored
\* destinations right after it are the set the call computed from its nodes.
C9_PatchInstallsComputedSet ==
  [][\A p \in callers :
       (pc[p] = "U_patch" /\ pc'[p] = "done" /\ res'[p].state = "ok") =>
         Range(routing'.dest) =
           Range(getNetworkInterfacesForNodes(call[p].nodes, NetworkName).nis)]_vars

\* C10: no successful UpdateLoadBalancer leaves the routing object without
\* destinations.
C10_UpdateNeverEmpty ==
  \A p \in callers : Succeeded(p, "update") => routing.dest # <<>>

\* C11: EnsureLoadBalancerDeleted whose Delete request is answered NotFound
\* returns success at once, without a wait poll and without a change of the
\* store; and the Delete request of a call that follows a successful
\* EnsureLoadBalancerDeleted is answered that way, so that the second call
\* returns what the first returned and leaves the store as it found it.
C11_DeleteIdempotent ==
  [][\A p \in callers :
       (/\ call[p].op = "delete" /\ pc[p] = "D_delete" /\ pc'[p] # "D_delete"
        /\ faults' = faults
        /\ ~lb.exists \/ obs[p].after = [op |-> "delete", state |-> "ok"])
       => /\ pc'[p] = "done"
          /\ res'[p].state = "ok"
          /\ lb' = lb
          /\ routing' = routing]_vars

\* C12: a step with which EnsureLoadBalancerDeleted returns success is a
\* request that the store answered with NotFound (the LoadBalancer is absent
\* and the request was not answered with another error), and a poll of the
\* deletion wait that is answered with another error ends the call with an
\* error.
C12_DeleteSuccessSawAbsent ==
  [][\A p \in callers :
       /\ (/\ call[p].op = "delete" /\ pc[p] \in {"D_delete", "D_wait"}
           /\ pc'[p] = "done" /\ res'[p].state = "ok")
          => (~lb.exists /\ faults' = faults)
       /\ (/\ call[p].op = "delete" /\ pc[p] = "D_wait" /\ faults' # faults)
          => (pc'[p] = "done" /\ res'[p].state = "err")]_vars

\* C13 (checked where an accepted deletion never completes): the deletion wait
\* makes at most waitLoadbalancerActiveSteps polls, and the only way out of it
\* is the return of a Timeout error.
C13_DeleteWaitTimesOut ==
  [][\A p \in callers :
       pc[p] = "D_wait" =>
         /\ loc[p].polls < waitLoadbalancerActiveSteps
         /\ pc'[p] # "D_wait" =>
              /\ pc'[p] = "done"
              /\ res'[p].state = "err"
              /\ res'[p].err = "Timeout"]_vars

\* C14: a request that the store answers with an error (other than a NotFound
\* the code handles) ends the call that made it: the call returns an error
\* with that step and makes no later step.
C14_StoreErrorsPropagated ==
  [][\A p \in callers :
       (faults' # faults /\ pc'[p] # pc[p])
       => (pc'[p] = "done" /\ res'[p].state = "err")]_vars

\* C15: when EnsureLoadBalancer calls that ran at the same time with the same
\* Service and node list have all returned success, the store holds what one
\* such call alone leaves: a LoadBalancer with the spec built from the Service,
\* and a routing object with the network's reference, the sorted resolved
\* destinations and an owner reference to that LoadBalancer.
C15_ConcurrentEnsuresConverge ==
  (\A p \in callers : Succeeded(p, "ensure") /\ call[p].given) =>
    \A p \in callers :
      /\ lb.exists
      /\ lb.type = DesiredType(call[p])
      /\ lb.network = NetworkName
      /\ lb.ipsrc = IpSource(DesiredType(call[p]), prefixName)
      /\ routing.exists
      /\ routing.network = [name |-> NetworkName, uid |-> NetworkUID]
      /\ routing.owner = lb.uid
      /\ routing.dest =
           RoutingDestinations(getNetworkInterfacesForNodes(call[p].nodes, NetworkName).nis)

\* C16: an EnsureLoadBalancer call that follows a successful one with the same
\* Service and node list never goes into the deletion, and at every moment up
\* to and including its return the store holds the LoadBalancer the first call
\* left (same instance, same spec, not being deleted) and the routing object
\* with the same owner, network reference and destinations; only the label
\* may have changed.
C16_EnsureAgainChangesNothing ==
  \A p \in callers :
    (call[p].op = "ensure" /\ call[p].given
     /\ obs[p].after = [op |-> "ensure", state |-> "ok"]) =>
      /\ pc[p] \notin {"D_delete", "D_wait"}
      /\ lb.exists /\ ~lb.deleting
      /\ lb.uid = 1 /\ nextUid = 2
      /\ lb.type = DesiredType(call[p])
      /\ lb.network = NetworkName
      /\ lb.ipsrc = IpSource(DesiredType(call[p]), prefixName)
      /\ routing.exists
      /\ routing.owner = lb.uid
      /\ routing.network = [name |-> NetworkName, uid |-> NetworkUID]
      /\ routing.dest =
           RoutingDestinations(getNetworkInterfacesForNodes(call[p].nodes, NetworkName).nis)

\* the second call has returned success for an Internal load balancer with two
\* destinations
C16_Witness ==
  \E p \in callers :
    /\ Succeeded(p, "ensure") /\ call[p].given
    /\ DesiredType(call[p]) = LoadBalancerTypeInternal
    /\ obs[p].after = [op |-> "ensure", state |-> "ok"]
    /\ obs[p].wrote
    /\ res[p].status.ingress # <<>>
    /\ Len(routing.dest) = 2

\* C17: once the context of a call in the activation wait or in the deletion
\* wait is done, the call's next step is its return with a timeout error, and
\* that step is no poll: it sends no request to the store.
C17_CancelledWaitReturnsError ==
  [][\A p \in callers :
       (/\ pc[p] \in {"E_wait", "D_wait"} /\ call[p].ctxDone
        /\ <<pc[p], obs[p], res[p]>> # <<pc'[p], obs'[p], res'[p]>>)
       => /\ pc'[p] = "done"
          /\ res'[p].state = "err"
          /\ res'[p].err = "Timeout"
          /\ res'[p].status.nil
          /\ obs'[p].usedStore = obs[p].usedStore
          /\ obs'[p].lastPoll = obs[p].lastPoll
          /\ faults' = faults
          /\ lb' = lb /\ routing' = routing]_vars

\* a call has returned the timeout error with a done context after polls that
\* read the LoadBalancer
C17_Witness ==
  \E p \in callers :
    /\ pc[p] = "done" /\ call[p].ctxDone
    /\ call[p].op = "ensure" /\ obs[p].waited /\ obs[p].lastPoll.kind = "read"
    /\ res[p].err = "Timeout"

\* the part of a string before its first "-" (the whole string without one)
BeforeFirstDash(str) ==
  LET dashes == {i \in 1..Len(str) : str[i] = "-"}
  IN  IF dashes = {} THEN str
      ELSE SubSeq(str, 1, (CHOOSE i \in dashes : \A j \in dashes : i <= j) - 1)

\* C18: every derived name is clusterName, "-", the Service's name, "-" and the
\* part of the Service's UID before its first "-", and every operation derives
\* the same name for the same cluster name and Service.
C18_NameFormula ==
  /\ \A r \in names :
       r.name = r.clusterName \o <<"-">> \o r.service.name \o <<"-">>
                  \o BeforeFirstDash(r.service.uid)
  /\ \A r1, r2 \in names :
       (r1.clusterName = r2.clusterName /\ r1.service = r2.service) => r1.name = r2.name

\* the lookup and another operation have derived the name for the same Service,
\* whose UID has a "-"
C18_Witness ==
  \E r1, r2 \in names :
    /\ r1.op = "lookup" /\ r2.op # "lookup"
    /\ r1.clusterName = r2.clusterName /\ r1.service = r2.service
    /\ \E i \in 1..Len(r1.service.uid) : r1.service.uid[i] = "-"

\* C19: names derived for different (clusterName, Service name, Service UID)
\* triples are different.
C19_NamesDoNotCollide ==
  \A r1, r2 \in names :
    (r1.clusterName # r2.clusterName \/ r1.service # r2.service) => r1.name # r2.name

\* C20: GetLoadBalancer changes nothing in the store; when the LoadBalancer is
\* absent it returns no status, exists = false and an error; when the Get
\* returns the LoadBalancer it returns exists = true, no error, and a status
\* with one ingress entry per IP of status.ips, in the same order, each the
\* IP's string.
C20_LookupResult ==
  [][\A p \in callers :
       (pc[p] = "G_get" /\ pc'[p] # "G_get") =>
         /\ lb' = lb /\ routing' = routing
         /\ pc'[p] = "done"
         /\ ~lb.exists =>
              /\ res'[p].state = "err"
              /\ ~res'[p].exists
              /\ res'[p].status.nil
         /\ (lb.exists /\ faults' = faults) =>
              /\ res'[p].state = "ok"
              /\ res'[p].exists
              /\ ~res'[p].status.nil
              /\ Len(res'[p].status.ingress) = Len(lb.ips)
              /\ \A i \in 1..Len(lb.ips) :
                   res'[p].status.ingress[i] = [IP |-> IPString(lb.ips[i])]]_vars

\* a lookup has returned the two addresses of an existing LoadBalancer
C20_Witness ==
  \E p \in callers :
    /\ Finished(p, "lookup") /\ res[p].exists
    /\ Len(res[p].status.ingress) = 2
    /\ lb.exists /\ Len(lb.ips) = 2

\* C21: an EnsureLoadBalancer call for an Internal load balancer while no
\* prefix is configured never applies the routing object, never enters the
\* activation wait or the touch, never changes the routing object, and, when
\* the store answered every request and the caller did not cancel the call,
\* returns the configuration error; and a
\* stored Internal LoadBalancer has exactly one IP source, whose parent is the
\* configured (non-empty) prefix, while a stored Public one has none.
C21_InternalNeedsPrefix ==
  /\ \A p \in callers :
       (/\ call[p].op = "ensure"
        /\ DesiredType(call[p]) = LoadBalancerTypeInternal
        /\ prefixName = <<>>) =>
         /\ pc[p] \notin {"E_routing", "E_wait", "T_get", "T_update"}
         /\ ~obs[p].wrote
         /\ ~obs[p].waited
         /\ (pc[p] = "done" /\ faults = 0 /\ ~call[p].ctxDone) =>
              (res[p].state = "err" /\ res[p].err = "Config")
  /\ lb.exists =>
       IF lb.type = LoadBalancerTypeInternal
       THEN prefixName # <<>> /\ lb.ipsrc = <<prefixName>>
       ELSE lb.ipsrc = <<>>

\* C22 (checked where an Internal LoadBalancer, the object with UID 1, is
\* stored at the start): the LoadBalancer an EnsureLoadBalancer call applies is
\* Internal exactly when the Service's annotation has the value "true" and
\* Public otherwise; when the call returns success the stored LoadBalancer has
\* that type; and when the first call is made for a Service without the value
\* "true" and returns success, a Public LoadBalancer is stored and it is not
\* the object with UID 1.
C22_TypeFollowsAnnotation ==
  [][\A p \in callers :
       call[p].op = "ensure" =>
         LET type == IF call[p].annotation = <<"true">>
                     THEN LoadBalancerTypeInternal ELSE LoadBalancerTypePublic
         IN  /\ (pc[p] = "E_apply" /\ pc'[p] = "E_routing") =>
                  (lb'.exists /\ lb'.type = type)
             /\ (pc[p] # "done" /\ pc'[p] = "done" /\ res'[p].state = "ok") =>
                  /\ lb'.exists => lb'.type = type
                  /\ (obs[p].after.op = "none" /\ type = LoadBalancerTypePublic) =>
                       /\ lb'.exists
                       /\ lb'.type = LoadBalancerTypePublic
                       /\ lb'.uid # 1]_vars

\* C23: every stored routing object names in its owner reference a
\* LoadBalancer of its own name (one LoadBalancer: a UID is set), and once an
\* EnsureLoadBalancer call has returned success and no call is running, the
\* routing object of its name is stored and the UID of its owner reference is
\* the UID of the LoadBalancer stored under that name.
C23_RoutingOwnedByItsLoadBalancer ==
  /\ \A n \in LoadBalancerNames :
       loadBalancerRoutings[n].exists =>
         /\ loadBalancerRoutings[n].ownerName = n
         /\ loadBalancerRoutings[n].owner # 0
  /\ \A p \in callers :
       (Succeeded(p, "ensure") /\ \A q \in callers : pc[q] \in {"idle", "done"}) =>
         /\ LBR(p).exists
         /\ LB(p).exists => LBR(p).owner = LB(p).uid

\* C24: a poll of the activation wait that fetches a LoadBalancer with
\* status.ips whose type is not the type recorded before the apply, while the
\* ingress computed from status.ips equals the Service's reported status, never
\* ends the wait with success: up to the 18th such poll the wait goes on, and
\* the 19th ends the call with a Timeout error.
C24_GuardDefersSuccess ==
  [][\A p \in callers :
       (/\ pc[p] = "E_wait" /\ ~call[p].ctxDone /\ faults' = faults
        /\ pc'[p] # "E_wait" \/ loc'[p].polls # loc[p].polls
        /\ LB(p).exists /\ LB(p).ips # <<>>
        /\ LB(p).type # loc[p].existingType
        /\ LoadBalancerStatusEqual(call[p].svcStatus, ToIngress(LB(p).ips)))
       => /\ pc'[p] # "T_get"
          /\ loc[p].polls < waitLoadbalancerActiveSteps
          /\ IF loc[p].polls + 1 < waitLoadbalancerActiveSteps
             THEN pc'[p] = "E_wait" /\ loc'[p].polls = loc[p].polls + 1
             ELSE /\ pc'[p] = "done"
                  /\ res'[p].state = "err"
                  /\ res'[p].err = "Timeout"
                  /\ res'[p].status.nil]_vars

\* an activation wait has made 18 polls, the last of which read status.ips, and
\* the condition holds for the 19th: the type differs from the recorded one and
\* the Service reports the LoadBalancer's addresses
C24_Witness ==
  \E p \in callers :
    /\ pc[p] = "E_wait" /\ loc[p].polls = waitLoadbalancerActiveSteps - 1
    /\ ~call[p].ctxDone
    /\ obs[p].lastPoll.kind = "read" /\ obs[p].lastPoll.ips # <<>>
    /\ LB(p).exists /\ LB(p).ips = obs[p].lastPoll.ips
    /\ LB(p).type # loc[p].existingType
    /\ LoadBalancerStatusEqual(call[p].svcStatus, ToIngress(LB(p).ips))

\* C25: EnsureLoadBalancer sends the Update that sets the "updated" label only
\* in a call whose last poll of the activation wait read a LoadBalancer with
\* status.ips; that Update changes nothing of the routing object but the
\* label; and a touch whose Get or Update fails (store error, routing object
\* absent or changed since the Get) ends the call with an error and without a
\* change of the routing object.
C25_TouchOnlyAfterActive ==
  [][\A p \in callers :
       /\ (pc[p] = "T_update" /\ pc'[p] = "done" /\ res'[p].state = "ok") =>
            /\ obs[p].waited
            /\ obs[p].lastPoll.kind = "read" /\ obs[p].lastPoll.ips # <<>>
            /\ loadBalancerRoutings'[Key(p)] =
                 [LBR(p) EXCEPT !.updated = loadBalancerRoutings'[Key(p)].updated]
            /\ loadBalancerRoutings'[Key(p)].updated # NoLabel
       /\ (/\ pc[p] = "T_get" /\ pc'[p] # "T_get"
           /\ faults' # faults \/ ~LBR(p).exists) =>
            /\ pc'[p] = "done" /\ res'[p].state = "err"
            /\ loadBalancerRoutings'[Key(p)] = LBR(p)
       /\ (/\ pc[p] = "T_update" /\ pc'[p] # "T_update"
           /\ faults' # faults \/ LBR(p) # loc[p].lbr) =>
            /\ pc'[p] = "done" /\ res'[p].state = "err"
            /\ loadBalancerRoutings'[Key(p)] = LBR(p)
       /\ (/\ pc[p] # "T_update"
           /\ LBR(p).exists /\ loadBalancerRoutings'[Key(p)].exists) =>
            loadBalancerRoutings'[Key(p)].updated = LBR(p).updated]_vars

\* C26: an instance operation whose Get of the Machine named after the node is
\* answered NotFound returns InstanceNotFound and leaves every stored object as
\* it was; called with a nil node it returns at once with the zero result and no
\* error, having sent no request; InstanceExists answers true for every Machine
\* the store returns, and InstanceShutdown answers true exactly when that
\* Machine's state is Shutdown.
C26_InstanceLookups ==
  [][\A p \in callers :
       LET served == faults' = faults /\ pc'[p] # pc[p]
           absent == MachinesNamed(call[p].nodes[1].name) = {}
       IN  /\ (pc[p] \in {"X_get", "S_get", "M_machine"} /\ served /\ absent) =>
                /\ res'[p].state = "err" /\ res'[p].err = "InstanceNotFound"
                /\ ~res'[p].exists /\ res'[p].meta = NilMetadata
                /\ UNCHANGED <<compute, loadBalancers, loadBalancerRoutings>>
           /\ (/\ pc[p] \in {"idle", "done"} /\ ncalls' # ncalls
               /\ call'[p].op \in {"exists", "shutdown", "metadata"}
               /\ call'[p].nodes = <<>>) =>
                /\ pc'[p] = "done"
                /\ res'[p] = [NoRes EXCEPT !.state = "ok"]
                /\ ~obs'[p].usedStore
                /\ UNCHANGED <<compute, loadBalancers, loadBalancerRoutings, faults>>
           /\ (pc[p] = "X_get" /\ served /\ ~absent) =>
                res'[p].state = "ok" /\ res'[p].exists
           /\ (pc[p] = "S_get" /\ served /\ ~absent) =>
                /\ res'[p].state = "ok"
                /\ res'[p].exists =
                     (compute.machineState[call[p].nodes[1].name] = "Shutdown")]_vars

\* a call of InstanceShutdown has answered true, after a call of InstanceExists
\* that failed though no request met a store error: its node has no Machine
C26_Witness ==
  \E p \in callers :
    /\ Succeeded(p, "shutdown") /\ res[p].exists
    /\ obs[p].after = [op |-> "exists", state |-> "err"]
    /\ faults = 0

\* the NetworkInterface names {machine name}-{attachment name} of a Machine's
\* declared attachments
AttachmentNames(machine) ==
  {SprintfDash(machine.name, machine.nics[i].name) : i \in 1..Len(machine.nics)}

\* the Machine and the NetworkInterfaces of its attachments carry the
\* cluster-name label with the configured cluster name
Labelled(machine) ==
  /\ machine.name \in MachineNames
  /\ compute.machineLabels[machine.name].cluster = InstancesClusterName
  /\ \A n \in AttachmentNames(machine) :
       /\ n \in NetworkInterfaceNames
       /\ compute.nicLabels[n].cluster = InstancesClusterName

\* C27: when InstanceMetadata has returned successfully for a node, the Machine
\* of the node's name and the NetworkInterface {machine name}-{attachment name}
\* of each declared attachment carry the cluster-name label with the configured
\* cluster name, and the provider ID returned is the node's own if that is not
\* empty and otherwise ProviderName://namespace/machine name; no step of the
\* call changes another label or another object, and a call that finds the label
\* in place on the Machine and its NetworkInterfaces changes nothing.
C27_MetadataLabels ==
  [][\A p \in callers :
       LET node == call[p].nodes[1]
           machine == GetMachine(node.name)
       IN  /\ (pc[p] \in {"M_machine", "M_nic"} /\ Succeeded(p, "metadata")') =>
                /\ Labelled(machine)'
                /\ ~res'[p].meta.nil
                /\ res'[p].meta.providerID =
                     IF node.providerID # <<>>
                     THEN node.providerID
                     ELSE <<ProviderName, ":", "/", "/", OnmetalNamespace, "/">> \o machine.name
           /\ pc[p] \in {"M_machine", "M_nic"} =>
                /\ \A m \in MachineNames :
                     /\ compute'.machineLabels[m].other = compute.machineLabels[m].other
                     /\ m # machine.name =>
                          compute'.machineLabels[m] = compute.machineLabels[m]
                /\ \A n \in NetworkInterfaceNames :
                     /\ compute'.nicLabels[n].other = compute.nicLabels[n].other
                     /\ n \notin AttachmentNames(machine) =>
                          compute'.nicLabels[n] = compute.nicLabels[n]
                /\ compute'.machineState = compute.machineState
                /\ Labelled(machine) => compute' = compute]_vars

\* a second call of InstanceMetadata has succeeded for the node of a Machine
\* with two attachments and other labels, with a provider ID built from the
\* Machine's name, on a compute side that started with another cluster's label
C27_Witness ==
  \E p \in callers :
    /\ Succeeded(p, "metadata")
    /\ call[p].nodes = << [name |-> <<"m5">>, providerID |-> <<>>] >>
    /\ res[p].meta.providerID = <<"onmetal", ":", "/", "/", "ns", "/", "m5">>
    /\ obs[p].after = [op |-> "metadata", state |-> "ok"]
    /\ compute.machineLabels[<<"m5">>] = LabelsOf(InstancesClusterName, <<"x">>)
    /\ compute.nicLabels[<<"m5", "-", "b">>] = LabelsOf(InstancesClusterName, <<"y">>)
    /\ compute.machineLabels[<<"m1">>].cluster = <<"old">>

\* the LoadBalancer of the desired type and the routing object are stored under
\* the name of caller p's call after the step
AppliedObjectsPresent(p) ==
  /\ loadBalancers'[Key(p)].exists
  /\ loadBalancers'[Key(p)].type = DesiredType(call[p])
  /\ loadBalancerRoutings'[Key(p)].exists

\* the order of the steps of one EnsureLoadBalancer call: the routing object is
\* applied by a call that has applied the LoadBalancer, and a poll of the
\* activation wait is made by a call that has applied the routing object
C28_Order ==
  \A p \in callers :
    /\ pc[p] \in {"E_routing", "E_wait"} => loc[p].lbUid # 0
    /\ pc[p] = "E_wait" => obs[p].wrote
    /\ (call[p].op = "ensure" /\ obs[p].wrote) =>
         pc[p] \in {"E_wait", "T_get", "T_update", "done"}
    /\ (call[p].op = "ensure" /\ obs[p].waited) => obs[p].wrote

\* C28 as stated: the steps of an EnsureLoadBalancer call are ordered as above,
\* and every step that ends the call with a Timeout leaves the LoadBalancer of
\* the desired type and its routing object in the store.
C28_AppliedBeforeTimeout ==
  [][\A p \in callers :
       /\ C28_Order'
       /\ (/\ call[p].op = "ensure" /\ pc[p] # "done" /\ pc'[p] = "done"
           /\ res'[p].err = "Timeout") => AppliedObjectsPresent(p)]_vars

\* C28 without the deletion wait: the steps of an EnsureLoadBalancer call are
\* ordered as above; a step that ends the call with an error changes no stored
\* object; a Timeout of the activation wait, at a moment the LoadBalancer is
\* stored, finds it with the desired type next to its routing object; and a
\* Timeout of the deletion wait leaves no LoadBalancer or the one of the type the
\* call found.
C28_NothingRolledBack ==
  [][\A p \in callers :
       LET ends == call[p].op = "ensure" /\ pc[p] # "done" /\ pc'[p] = "done"
       IN  /\ C28_Order'
           /\ (ends /\ res'[p].state = "err") =>
                UNCHANGED <<loadBalancers, loadBalancerRoutings>>
           /\ (ends /\ pc[p] = "E_wait" /\ res'[p].err = "Timeout" /\ LB(p).exists) =>
                AppliedObjectsPresent(p)
           /\ (ends /\ pc[p] = "D_wait" /\ res'[p].err = "Timeout" /\ LB(p).exists) =>
                /\ loadBalancers'[Key(p)].type = loc[p].existingType
                /\ loadBalancers'[Key(p)].type # DesiredType(call[p])]_vars

\* an EnsureLoadBalancer call has ended with the Timeout of its activation wait
\* after all polls, with no store error and no cancellation, and the
\* LoadBalancer of the desired type and the routing object are stored
C28_Witness ==
  \E p \in callers :
    /\ Finished(p, "ensure") /\ res[p].err = "Timeout"
    /\ obs[p].waited /\ obs[p].wrote
    /\ faults = 0 /\ ~call[p].ctxDone
    /\ LB(p).exists /\ LB(p).type = DesiredType(call[p]) /\ LBR(p).exists
    /\ LBR(p).owner = LB(p).uid

\* C29: no step of UpdateLoadBalancer creates or deletes an object or changes a
\* LoadBalancer; when the Get of the LoadBalancer or of the routing object of
\* the derived name finds none, the call returns an error with the store as it
\* was; and the step that ends the call with success leaves every stored object
\* as it was except for the destinations of the routing object of that name.
C29_UpdateFrame ==
  [][\A p \in callers :
       (pc[p] \in {"U_getLB", "U_getLBR", "U_patch"} /\ pc'[p] # pc[p]) =>
         /\ UNCHANGED <<loadBalancers, compute>>
         /\ \A n \in LoadBalancerNames :
              /\ loadBalancerRoutings'[n].exists = loadBalancerRoutings[n].exists
              /\ n # Key(p) => loadBalancerRoutings'[n] = loadBalancerRoutings[n]
         /\ loadBalancerRoutings'[Key(p)] =
              [LBR(p) EXCEPT !.dest = loadBalancerRoutings'[Key(p)].dest]
         /\ (\/ pc[p] = "U_getLB" /\ ~LB(p).exists
             \/ pc[p] = "U_getLBR" /\ ~LBR(p).exists) =>
              /\ pc'[p] = "done" /\ res'[p].state = "err"
              /\ UNCHANGED loadBalancerRoutings
         /\ res'[p].state = "err" => UNCHANGED loadBalancerRoutings]_vars

\* an UpdateLoadBalancer call has succeeded and changed the destinations of a
\* routing object that carries the label of an earlier call; the LoadBalancer
\* is stored
C29_Witness ==
  \E p \in callers :
    /\ Succeeded(p, "update") /\ obs[p].wrote
    /\ obs[p].after = [op |-> "ensure", state |-> "ok"]
    /\ LB(p).exists /\ LBR(p).exists
    /\ LBR(p).dest # <<>> /\ LBR(p).updated # <<>> /\ LBR(p).owner = LB(p).uid

\* the name derived from the cluster name and Service of caller p's calls
DerivedName(p) == GetLoadBalancerName(ident[p].clusterName, ident[p].service)

\* C30: a step of an EnsureLoadBalancer, UpdateLoadBalancer or
\* EnsureLoadBalancerDeleted call leaves the LoadBalancer and the routing object
\* of every name other than the call's derived name as they are, and leaves the
\* Machines, NetworkInterfaces and their labels as they are; the calls of
\* callers with different derived names share no stored object.
C30_OtherNamesUntouched ==
  [][\A p \in callers :
       (pc'[p] # pc[p] \/ loc'[p] # loc[p] \/ obs'[p] # obs[p]) =>
         /\ \A n \in LoadBalancerNames \ {DerivedName(p)} :
              /\ loadBalancers'[n] = loadBalancers[n]
              /\ loadBalancerRoutings'[n] = loadBalancerRoutings[n]
         /\ compute' = compute
         /\ \A q \in callers \ {p} :
              /\ DerivedName(q) # DerivedName(p)
              /\ pc'[q] = pc[q] /\ loc'[q] = loc[q] /\ res'[q] = res[q]]_vars

\* the first caller's EnsureLoadBalancer has replaced the Public LoadBalancer of
\* its name by an Internal one and returned, the second caller's
\* EnsureLoadBalancerDeleted has removed the LoadBalancer of the other name,
\* whose routing object is still the initial one
C30_Witness ==
  /\ Succeeded(1, "ensure") /\ Succeeded(2, "delete")
  /\ DerivedName(1) # DerivedName(2)
  /\ loadBalancers[DerivedName(1)].exists
  /\ loadBalancers[DerivedName(1)].type = LoadBalancerTypeInternal
  /\ loadBalancers[DerivedName(1)].uid > 2
  /\ loadBalancerRoutings[DerivedName(1)].owner = loadBalancers[DerivedName(1)].uid
  /\ ~loadBalancers[DerivedName(2)].exists
  /\ loadBalancerRoutings[DerivedName(2)] = ApplyRouting(NoRouting, <<>>, 2, DerivedName(2))

\* the part of a provider ID after its last "/": the suffix t without "/" such
\* that the ID is some prefix, "/", t; no such part when the ID has no "/"
PartsAfterLastSlash(providerID) ==
  {SubSeq(providerID, i + 1, Len(providerID)) :
     i \in {j \in 1..Len(providerID) :
              /\ providerID[j] = "/"
              /\ \A k \in (j + 1)..Len(providerID) : providerID[k] # "/"}}

\* the nodes of a list whose provider ID yields a machine name
RECURSIVE WithMachineName(_)
WithMachineName(nodes) ==
  IF nodes = <<>> THEN <<>>
  ELSE IF PartsAfterLastSlash(Head(nodes).providerID) \in {{}, {<<>>}}
       THEN WithMachineName(Tail(nodes))
       ELSE <<Head(nodes)>> \o WithMachineName(Tail(nodes))

\* C31: the machine name taken from a node's provider ID is the part after its
\* last "/", and the empty name when there is no "/" or nothing after the last
\* one; the resolution step of EnsureLoadBalancer and of UpdateLoadBalancer,
\* when the store answers its requests, ends as it would for the node list
\* without the nodes of empty machine name: with the same destinations written,
\* and with an error only if those other nodes cause one.
C31_NoMachineNameSkipped ==
  [][\A p \in callers :
       LET nodes == call[p].nodes
           r == getNetworkInterfacesForNodes(WithMachineName(nodes), NetworkName)
           served == faults' = faults /\ pc'[p] # pc[p]
       IN  /\ \A i \in 1..Len(nodes) :
                LET id == nodes[i].providerID
                    name == extractMachineNameFromProviderID(id)
                IN  IF PartsAfterLastSlash(id) = {}
                    THEN name = <<>>
                    ELSE PartsAfterLastSlash(id) = {name}
           /\ (pc[p] = "E_routing" /\ served) =>
                IF r.err
                THEN res'[p].err = "Resolve" /\ UNCHANGED loadBalancerRoutings
                ELSE /\ pc'[p] = "E_wait"
                     /\ loadBalancerRoutings'[Key(p)].dest = RoutingDestinations(r.nis)
           /\ (pc[p] = "U_patch" /\ served /\ LBR(p).exists) =>
                IF r.err
                THEN res'[p].err = "Resolve" /\ UNCHANGED loadBalancerRoutings
                ELSE /\ res'[p].state = "ok"
                     /\ loadBalancerRoutings'[Key(p)].dest = UpdateDestinations(r.nis)]_vars

\* an UpdateLoadBalancer call for a node without "/" in its provider ID, whose
\* provider ID is the name of a stored Machine, followed by a node with a
\* Machine has succeeded and written the destination of the second node only
C31_Witness ==
  \E p \in callers :
    /\ Succeeded(p, "update")
    /\ Len(call[p].nodes) = 2
    /\ call[p].nodes[1].providerID = <<"m2">>
    /\ extractMachineNameFromProviderID(call[p].nodes[2].providerID) = <<"m1">>
    /\ LBR(p).dest = <<[name |-> <<"nicA">>, uid |-> 2]>>

\* C32 (checked where a LoadBalancer, the object with UID 1, and its routing
\* object are stored at the start): when the first call is an EnsureLoadBalancer
\* that returns the configuration error, no request of which met a store error,
\* the LoadBalancer with UID 1 is still stored, with its type and not marked for
\* deletion, next to its routing object.
C32_ConfigErrorKeepsStore ==
  \A p \in callers :
    (/\ Finished(p, "ensure") /\ res[p].err = "Config"
     /\ obs[p].after.op = "none"
     /\ faults = 0 /\ ~call[p].ctxDone) =>
      /\ LB(p).exists /\ LB(p).uid = 1 /\ ~LB(p).deleting
      /\ LB(p).type = LoadBalancerTypePublic
      /\ LBR(p).exists /\ LBR(p).owner = 1

\* caller p's call makes a poll of the activation wait that the store answers
\* with a LoadBalancer of non-empty status.ips, in a call no request of which
\* met a store error and which the caller has not cancelled
PollSeesIPs(p) ==
  /\ call[p].op = "ensure" /\ pc[p] = "E_wait"
  /\ pc'[p] # pc[p] \/ loc'[p] # loc[p] \/ obs'[p] # obs[p]
  /\ faults = 0 /\ faults' = 0 /\ ~call[p].ctxDone
  /\ LB(p).exists /\ Len(LB(p).ips) # 0

\* C33: in an EnsureLoadBalancer call that found no LoadBalancer or one of the
\* desired type, a poll of the activation wait that reads non-empty status.ips
\* ends the wait with success, whatever status the Service reports.
C33_GuardOnlyAfterTypeChange ==
  [][\A p \in callers :
       (/\ PollSeesIPs(p)
        /\ loc[p].existingType \in {NoType, DesiredType(call[p])}) =>
         pc'[p] = "T_get"]_vars

====
